---- MODULE Spec2Model ----
(***************************************************************************)
(* Model of the playground's scene lifecycle: the debounced execution of   *)
(* the editor text (BabylonCanvas.executeCodeWithDelay), the replace cycle *)
(* snapshot -> dispose -> execute -> camera restore -> publish, and the    *)
(* observers of the publish step (PlaygroundLayout.handleSceneReady,       *)
(* SceneManager.setScene / syncExistingObjects / updateCode).              *)
(*                                                                         *)
(* Numbers: a transform component or an intensity is an integer count of   *)
(* thousandths (1.0 is 1000); a number printed by toFixed(2) is an integer *)
(* count of hundredths (1.00 is 100).  Camera angles and radii are small   *)
(* naturals.                                                               *)
(***************************************************************************)
EXTENDS Integers, Sequences, FiniteSets, Bags, TLC

\* ------------------------------------------------------------------ bounds

\* number of edits the user makes to the text
MaxEdits == 2

\* number of times dispose() raises
MaxDisposeErrors == 1

\* number of gestures of the user other than picks: edits, add-asset clicks,
\* window resizes with a mesh attached, manipulations of the attached mesh,
\* closing the playground
MaxGestures == 2

\* number of drag-end handlers picks register on one gizmo manager
MaxHandlers == 2

\* ------------------------------------------------------------ JS values

\* an optional numeric field that was never assigned (alpha?, beta?, radius?)
Undef == -1

\* no object name (selectedMeshName = null)
NoName == "<null>"

\* error state null
NoError == "<null>"

\* `v || d` on a number: undefined and 0 are falsy
OrDefault(v, d) == IF v = Undef \/ v = 0 THEN d ELSE v

\* ------------------------------------------------------------- cameras

DefaultCameraPosition == <<0, 5, -10>>

Origin == <<0, 0, 0>>

\* new BABYLON.FreeCamera(name, position, scene); setTarget(...)
FreeCamera(name, position, target) ==
    [cls |-> "FreeCamera", name |-> name, position |-> position,
     rotation |-> Origin, target |-> target,
     alpha |-> Undef, beta |-> Undef, radius |-> Undef]

\* new BABYLON.ArcRotateCamera(name, alpha, beta, radius, target, scene)
ArcRotateCamera(name, alpha, beta, radius, target) ==
    [cls |-> "ArcRotateCamera", name |-> name, position |-> Origin,
     rotation |-> Origin, target |-> target,
     alpha |-> alpha, beta |-> beta, radius |-> radius]

\* a camera class of the engine that extends FreeCamera under another class name
UniversalCamera(name, position, target) ==
    [cls |-> "UniversalCamera", name |-> name, position |-> position,
     rotation |-> Origin, target |-> target,
     alpha |-> Undef, beta |-> Undef, radius |-> Undef]

\* camera instanceof BABYLON.FreeCamera
InstanceOfFreeCamera(cam) == cam.cls \in {"FreeCamera", "UniversalCamera"}

\* camera instanceof BABYLON.ArcRotateCamera
InstanceOfArcRotateCamera(cam) == cam.cls = "ArcRotateCamera"

\* the camera every default and fallback scene gets
DefaultCamera == FreeCamera("camera1", DefaultCameraPosition, Origin)

\* --------------------------------------------------------- lights, meshes

\* new BABYLON.HemisphericLight("light", ...); light.intensity = 0.7
DefaultLight == [name |-> "light", cls |-> "HemisphericLight", intensity |-> 700]

Mesh(name, position) ==
    [name |-> name, position |-> position, rotation |-> Origin,
     scaling |-> <<1000, 1000, 1000>>]

\* CreateSphere("sphere", ...); sphere.position.y = 1
DefaultSphere == Mesh("sphere", <<0, 1000, 0>>)

\* CreateGround("ground", ...)
DefaultGround == Mesh("ground", Origin)

\* -------------------------------------------------------------- scenes

\* a scene: its cameras, the index of the active camera (0: none), its lights
\* and meshes in creation order, and the _selectedMeshName the canvas stores
Scene(cameras, active, lights, meshes) ==
    [isNull |-> FALSE, disposed |-> FALSE, cameras |-> cameras,
     activeCamera |-> active, lights |-> lights, meshes |-> meshes,
     selectedMeshName |-> NoName]

\* the value of a script that produced no scene (undefined / null)
NoScene ==
    [isNull |-> TRUE, disposed |-> FALSE, cameras |-> <<>>,
     activeCamera |-> 0, lights |-> <<>>, meshes |-> <<>>,
     selectedMeshName |-> NoName]

\* new BABYLON.Scene(engine)
EmptyScene == Scene(<<>>, 0, <<>>, <<>>)

\* the scene built at mount and for an empty text
DefaultScene == Scene(<<DefaultCamera>>, 1, <<DefaultLight>>, <<DefaultSphere, DefaultGround>>)

\* a fallback scene built without the default camera and light
FallbackScene_Bare == EmptyScene

\* the scene built when the user code throws
FallbackScene == Scene(<<DefaultCamera>>, 1, <<DefaultLight>>, <<>>)

\* scene.dispose(): the scene is released and has no active camera any more.
\* The record keeps the objects that were built in the scene: a reference to
\* one of them still reads its name and transform.
Disposed(s) == [s EXCEPT !.disposed = TRUE, !.activeCamera = 0]

\* a scene no reference is left to (garbage): only its number stays taken
Collected == [Disposed(EmptyScene) EXCEPT !.selectedMeshName = NoName]

\* a camera constructed on a scene becomes active when none is
AddCamera(s, cam) ==
    [s EXCEPT !.cameras = Append(@, cam),
              !.activeCamera = IF @ = 0 THEN Len(s.cameras) + 1 ELSE @]

\* ------------------------------------------------- reverse code generator

\* value.toFixed(2): thousandths to hundredths, a tie rounding away from zero
ToFixed2(v) == IF v >= 0 THEN (v + 5) \div 10 ELSE -((-v + 5) \div 10)

Vec2(v) == <<ToFixed2(v[1]), ToFixed2(v[2]), ToFixed2(v[3])>>

\* a JS number: a finite one by its count of thousandths, NaN, or one whose
\* magnitude is 10^21 or more (the infinities among them)
Finite(v) == [kind |-> "finite", v |-> v]

NaN == [kind |-> "NaN", v |-> 0]

Huge == [kind |-> "huge", v |-> 0]

\* the text of a number: its form, its sign, its integer part and the digits
\* after the decimal point
Text(form, negative, integer, fraction) ==
    [form |-> form, negative |-> negative, integer |-> integer, fraction |-> fraction]

\* a printing that rounds to hundredths and drops the zeros at the end
toFixed_Shortest(x) ==
    IF x.kind # "finite" THEN Text(x.kind, FALSE, 0, <<>>)
    ELSE LET h == ToFixed2(x.v)
             a == IF h < 0 THEN -h ELSE h
         IN  Text("fixed", x.v < 0, a \div 100,
                  IF a % 100 = 0 THEN <<>>
                  ELSE IF a % 10 = 0 THEN <<(a % 100) \div 10>>
                  ELSE <<(a % 100) \div 10, a % 10>>)

\* Number.prototype.toFixed(2): "NaN" for NaN, the exponent notation of
\* String(x) from 10^21 on, else the sign, the integer part and two digits
toFixed(x) ==
    CASE x.kind = "NaN" -> Text("NaN", FALSE, 0, <<>>)
      [] x.kind = "huge" -> Text("exponent", FALSE, 0, <<>>)
      [] OTHER ->
           LET h == ToFixed2(x.v)
               a == IF h < 0 THEN -h ELSE h
           IN  Text("fixed", x.v < 0, a \div 100, <<(a % 100) \div 10, a % 10>>)

\* the display names and identifiers of the model
Names ==
    {"sphere", "box", "lamp", "pointLight", "pointlight", "Sphere",
     "Box", "Point Light", "Red Material", "redmaterial",
     "Arc Rotate Camera", "arcrotatecamera", "cylinder", "plane", "torus",
     "sandbox sphere", "sandboxsphere", "plane torus", "planetorus"}

\* the characters of a name
Chars(name) ==
    CASE name = "sphere" -> <<"s", "p", "h", "e", "r", "e">>
      [] name = "box" -> <<"b", "o", "x">>
      [] name = "lamp" -> <<"l", "a", "m", "p">>
      [] name = "pointLight" -> <<"p", "o", "i", "n", "t", "L", "i", "g", "h", "t">>
      [] name = "pointlight" -> <<"p", "o", "i", "n", "t", "l", "i", "g", "h", "t">>
      [] name = "Sphere" -> <<"S", "p", "h", "e", "r", "e">>
      [] name = "Box" -> <<"B", "o", "x">>
      [] name = "Point Light" -> <<"P", "o", "i", "n", "t", " ", "L", "i", "g", "h", "t">>
      [] name = "Red Material" -> <<"R", "e", "d", " ", "M", "a", "t", "e", "r", "i", "a", "l">>
      [] name = "redmaterial" -> <<"r", "e", "d", "m", "a", "t", "e", "r", "i", "a", "l">>
      [] name = "Arc Rotate Camera" -> <<"A", "r", "c", " ", "R", "o", "t", "a", "t", "e", " ", "C", "a", "m", "e", "r", "a">>
      [] name = "arcrotatecamera" -> <<"a", "r", "c", "r", "o", "t", "a", "t", "e", "c", "a", "m", "e", "r", "a">>
      [] name = "cylinder" -> <<"c", "y", "l", "i", "n", "d", "e", "r">>
      [] name = "plane" -> <<"p", "l", "a", "n", "e">>
      [] name = "torus" -> <<"t", "o", "r", "u", "s">>
      [] name = "sandbox sphere" -> <<"s", "a", "n", "d", "b", "o", "x", " ", "s", "p", "h", "e", "r", "e">>
      [] name = "sandboxsphere" -> <<"s", "a", "n", "d", "b", "o", "x", "s", "p", "h", "e", "r", "e">>
      [] name = "plane torus" -> <<"p", "l", "a", "n", "e", " ", "t", "o", "r", "u", "s">>
      [] name = "planetorus" -> <<"p", "l", "a", "n", "e", "t", "o", "r", "u", "s">>

\* the string with these characters
FromChars(cs) == CHOOSE name \in Names : Chars(name) = cs

\* String.prototype.toLowerCase, character by character
toLowerCase(cs) ==
    [i \in 1..Len(cs) |->
       LET c == cs[i]
       IN
       CASE c = "A" -> "a"
         [] c = "B" -> "b"
         [] c = "C" -> "c"
         [] c = "L" -> "l"
         [] c = "M" -> "m"
         [] c = "P" -> "p"
         [] c = "R" -> "r"
         [] c = "S" -> "s"
         [] OTHER -> c]

\* a character \s matches
IsWhitespace(c) == c = " "

\* an identifier that is the display name as it stands
SafeName_Verbatim(name) == name

\* name.toLowerCase().replace(/\s+/g, '')
SafeName(name) ==
    FromChars(SelectSeq(toLowerCase(Chars(name)), LAMBDA c : ~IsWhitespace(c)))

\* String.prototype.includes: sub is found at some position of cs
Includes(cs, sub) ==
    \E i \in 0..(Len(cs) - Len(sub)) : SubSeq(cs, i + 1, i + Len(sub)) = sub

\* mesh.name.includes(sub)
NameIncludes(name, sub) == Includes(Chars(name), Chars(sub))

\* a choice that looks for sphere before box
getMeshCreationCode_SphereFirst(mesh) ==
    CASE NameIncludes(mesh.name, "sphere") -> "CreateSphere"
      [] NameIncludes(mesh.name, "box") -> "CreateBox"
      [] NameIncludes(mesh.name, "cylinder") -> "CreateCylinder"
      [] NameIncludes(mesh.name, "plane") -> "CreatePlane"
      [] NameIncludes(mesh.name, "torus") -> "CreateTorus"
      [] OTHER -> "CreateBox"

\* the construction call chosen for a mesh; getClassName() of a mesh is
\* "Mesh", never "BoxMesh" or "SphereMesh"
getMeshCreationCode(mesh) ==
    CASE NameIncludes(mesh.name, "box") -> "CreateBox"
      [] NameIncludes(mesh.name, "sphere") -> "CreateSphere"
      [] NameIncludes(mesh.name, "cylinder") -> "CreateCylinder"
      [] NameIncludes(mesh.name, "plane") -> "CreatePlane"
      [] NameIncludes(mesh.name, "torus") -> "CreateTorus"
      [] OTHER -> "CreateBox"

\* the construction call chosen for a light
getLightCreationCode(light) ==
    IF light.cls \in {"DirectionalLight", "PointLight", "SpotLight"}
    THEN light.cls ELSE "HemisphericLight"

\* the construction call chosen for a camera
getCameraCreationCode(camera) ==
    IF camera.cls = "ArcRotateCamera" THEN "ArcRotateCamera" ELSE "FreeCamera"

\* the components toFixed(2) prints with a minus sign: those below zero, also
\* when they round to -0.00
Minus(v) == [i \in 1..3 |-> toFixed(Finite(v[i])).negative]

\* the snippet of one object: the identifier it declares, the object it
\* constructs and the values it assigns, each as its hundredths and its sign
generateObjectCode(obj, name, type) ==
    CASE type = "mesh" ->
           [type |-> "mesh", name |-> name, ident |-> SafeName(name),
            ctor |-> getMeshCreationCode(obj), objName |-> obj.name,
            position |-> Vec2(obj.position), rotation |-> Vec2(obj.rotation),
            scaling |-> Vec2(obj.scaling),
            minus |-> <<Minus(obj.position), Minus(obj.rotation), Minus(obj.scaling)>>]
      [] type = "light" ->
           [type |-> "light", name |-> name, ident |-> SafeName(name),
            ctor |-> getLightCreationCode(obj), objName |-> obj.name,
            intensity |-> ToFixed2(obj.intensity),
            minus |-> toFixed(Finite(obj.intensity)).negative]
      [] type = "camera" ->
           [type |-> "camera", name |-> name, ident |-> SafeName(name),
            ctor |-> getCameraCreationCode(obj), objName |-> obj.name]
      [] OTHER -> [type |-> type, name |-> name]

\* before any call of generateObjectCode
NoSnippet == [type |-> "none"]

\* ------------------------------------------------------- object registry

\* no live object
NoHandle == [scene |-> 0, type |-> "none", index |-> 0]

MeshHandle(sid, i) == [scene |-> sid, type |-> "mesh", index |-> i]

LightHandle(sid, i) == [scene |-> sid, type |-> "light", index |-> i]

CameraHandle(sid, i) == [scene |-> sid, type |-> "camera", index |-> i]

\* scene.meshes.forEach: the names syncExistingObjects leaves untracked
IsUserMesh(mesh) == mesh.name \notin {"ground", "__root__", "skybox"}

\* scene.lights.forEach: the names syncExistingObjects leaves untracked
IsUserLight(light) == light.name \notin {"light", "__default__"}

\* the entry syncExistingObjects stores for mesh i (forEach counts from 0)
MeshEntry(sid, m, i) ==
    [id |-> <<"existing", m.name, i - 1>>, name |-> m.name, type |-> "mesh",
     babylonObject |-> MeshHandle(sid, i),
     code |-> generateObjectCode(m, m.name, "mesh")]

\* the entry syncExistingObjects stores for light i
LightEntry(sid, l, i) ==
    [id |-> <<"existing", l.name, i - 1>>, name |-> l.name, type |-> "light",
     babylonObject |-> LightHandle(sid, i),
     code |-> generateObjectCode(l, l.name, "light")]

\* objects.set(id, entry): a Map keeps the position of a key it already has
MapSet(objs, e) ==
    IF \E k \in 1..Len(objs) : objs[k].id = e.id
    THEN [k \in 1..Len(objs) |-> IF objs[k].id = e.id THEN e ELSE objs[k]]
    ELSE Append(objs, e)

RECURSIVE SyncMeshes(_, _, _, _)
SyncMeshes(objs, sid, meshes, i) ==
    IF i > Len(meshes) THEN objs
    ELSE SyncMeshes(IF IsUserMesh(meshes[i])
                    THEN MapSet(objs, MeshEntry(sid, meshes[i], i)) ELSE objs,
                    sid, meshes, i + 1)

RECURSIVE SyncLights(_, _, _, _)
SyncLights(objs, sid, lights, i) ==
    IF i > Len(lights) THEN objs
    ELSE SyncLights(IF IsUserLight(lights[i])
                    THEN MapSet(objs, LightEntry(sid, lights[i], i)) ELSE objs,
                    sid, lights, i + 1)

\* a resync whose ids tell the scenes apart
syncExistingObjects_SceneIds(sid, scene) ==
    LET r == SyncLights(SyncMeshes(<<>>, sid, scene.meshes, 1), sid, scene.lights, 1)
    IN  [k \in 1..Len(r) |-> [r[k] EXCEPT !.id = <<"existing", r[k].name, sid>>]]

\* the registry syncExistingObjects builds for scene number sid: cleared, then
\* the meshes, then the lights, each list in scene order
syncExistingObjects(sid, scene) ==
    SyncLights(SyncMeshes(<<>>, sid, scene.meshes, 1), sid, scene.lights, 1)

\* setupObjectPropertyListeners on each mesh syncExistingObjects tracks: the
\* meshes whose position._x is from then on an accessor that calls
\* originalSetX.call, originalSetX being the number the property held
setupObjectPropertyListeners(sid, scene) ==
    {MeshHandle(sid, i) : i \in {j \in 1..Len(scene.meshes) : IsUserMesh(scene.meshes[j])}}

\* setupGizmos: this.gizmoManager = new BABYLON.GizmoManager(this.scene); the
\* manager held before is let go as it is
setupGizmos(managers, sid) == managers \cup {sid}

\* window.addEventListener('resize', handleResize) with the handleResize of
\* this call of handleSceneReady; no caller keeps the function that removes it
addEventListener(n) == n + 1

\* ------------------------------------------------------------------ texts

\* the empty editor text
BlankText == [t |-> "blank"]

\* a text with the snippets newest first
fullCode_Reversed(objs) ==
    [t |-> "gen", codes |-> [i \in 1..Len(objs) |-> objs[Len(objs) + 1 - i].code]]

\* the text updateCode emits: the scaffold around the snippets of the registry
fullCode(objs) ==
    [t |-> "gen", codes |-> [i \in 1..Len(objs) |-> objs[i].code]]

\* a text the user wrote, by what running it does: outcome is "scene" (it
\* returns scene), "none" (it returns nothing) or "throw"
UserText(outcome, scene) == [t |-> "user", outcome |-> outcome, scene |-> scene]

ThrowingText == UserText("throw", NoScene)

SceneLessText == UserText("none", NoScene)

\* alpha, beta and radius of the orbit cameras user texts construct
ArcPoses == {<<0, 0, 0>>, <<1, 2, 3>>}

UserBox == Mesh("box", <<0, 1000, 0>>)

ArcTexts ==
    { UserText("scene",
               Scene(<<ArcRotateCamera("cam", p[1], p[2], p[3], Origin)>>, 1,
                     <<DefaultLight>>, <<UserBox>>)) : p \in ArcPoses }

\* a scene with a camera of another class of the engine
UniversalText ==
    UserText("scene", Scene(<<UniversalCamera("cam", <<1, 2, 3>>, Origin)>>, 1,
                            <<DefaultLight>>, <<UserBox>>))

\* a scene with the root node of an imported model next to a box
FreeText ==
    UserText("scene", Scene(<<FreeCamera("cam", <<1, 2, 3>>, Origin)>>, 1,
                            <<DefaultLight>>, <<Mesh("__root__", Origin), UserBox>>))

\* a scene in which the text constructs no camera
CameraLessText ==
    UserText("scene", Scene(<<>>, 0, <<DefaultLight>>, <<UserBox, DefaultGround>>))

\* a scene whose only camera the text left inactive
InactiveCameraText ==
    UserText("scene", Scene(<<FreeCamera("cam", <<1, 2, 3>>, Origin)>>, 0,
                            <<DefaultLight>>, <<UserBox>>))

\* a scene in which a mesh and a light have one name and one list position
SharedNameText ==
    UserText("scene",
             Scene(<<FreeCamera("cam", <<1, 2, 3>>, Origin)>>, 1,
                   <<[name |-> "lamp", cls |-> "PointLight", intensity |-> 1000]>>,
                   <<Mesh("lamp", Origin), UserBox>>))

\* a scene with a box a little to the left of the origin, less than half a
\* hundredth
NearOriginText ==
    UserText("scene", Scene(<<FreeCamera("cam", <<1, 2, 3>>, Origin)>>, 1,
                            <<DefaultLight>>, <<Mesh("box", <<-4, 1000, 0>>)>>))

\* the texts an edit can produce
UserTexts ==
    {BlankText, ThrowingText, SceneLessText, UniversalText, FreeText,
     CameraLessText, InactiveCameraText, SharedNameText} \cup ArcTexts

\* ------------------------------------------------------ sandbox executor

\* the identifiers the scaffold of fullCode declares in createScene
ScaffoldIdents == <<"scene", "camera", "light", "ground">>

\* a text that declares one identifier twice does not compile
HasDuplicate(seq) == \E i, j \in 1..Len(seq) : i < j /\ seq[i] = seq[j]

\* the pose the generated text and the camera asset give an orbit camera
\* (-Math.PI / 2, Math.PI / 2.5, 10), angles as tokens
GeneratedArcPose == <<3, 1, 10>>

\* the camera a camera snippet constructs when it runs
CameraOf(c) ==
    IF c.ctor = "ArcRotateCamera"
    THEN ArcRotateCamera(c.objName, GeneratedArcPose[1], GeneratedArcPose[2],
                         GeneratedArcPose[3], Origin)
    ELSE FreeCamera(c.objName, DefaultCameraPosition, Origin)

\* the object a snippet constructs when it runs; -0.00 is read as -0, which
\* is not below zero
ObjectOf(c) ==
    IF c.type = "mesh"
    THEN [name |-> c.objName,
          position |-> <<c.position[1] * 10, c.position[2] * 10, c.position[3] * 10>>,
          rotation |-> <<c.rotation[1] * 10, c.rotation[2] * 10, c.rotation[3] * 10>>,
          scaling |-> <<c.scaling[1] * 10, c.scaling[2] * 10, c.scaling[3] * 10>>]
    ELSE [name |-> c.objName, cls |-> c.ctor, intensity |-> c.intensity * 10]

\* running the text fullCode emitted: the scaffold, then the snippets in order
RunGenerated(codes) ==
    LET idents == ScaffoldIdents \o [i \in 1..Len(codes) |-> codes[i].ident]
        meshes == SelectSeq(codes, LAMBDA c : c.type = "mesh")
        lights == SelectSeq(codes, LAMBDA c : c.type = "light")
        cameras == SelectSeq(codes, LAMBDA c : c.type = "camera")
    IN  IF HasDuplicate(idents)
        THEN [outcome |-> "throw", scene |-> NoScene]
        ELSE [outcome |-> "scene",
              scene |-> Scene(<<DefaultCamera>> \o [i \in 1..Len(cameras) |-> CameraOf(cameras[i])], 1,
                              <<DefaultLight>> \o [i \in 1..Len(lights) |-> ObjectOf(lights[i])],
                              <<DefaultGround>> \o [i \in 1..Len(meshes) |-> ObjectOf(meshes[i])])]

\* userFunction(BABYLON, engine, canvas): what new Function(...)() returns or
\* that it throws
userFunction(text) ==
    IF text.t = "gen" THEN RunGenerated(text.codes)
    ELSE [outcome |-> text.outcome, scene |-> text.scene]

\* ----------------------------------------------------------- asset panel

\* an entry of BABYLON_ASSETS: its name and type, the variable its code
\* declares and the object its code constructs
BoxAsset ==
    [name |-> "Box", type |-> "mesh", variable |-> "box",
     object |-> Mesh("box", <<0, 1000, 0>>)]

PointLightAsset ==
    [name |-> "Point Light", type |-> "light", variable |-> "pointLight",
     object |-> [name |-> "pointLight", cls |-> "PointLight", intensity |-> 1000]]

RedMaterialAsset ==
    [name |-> "Red Material", type |-> "material", variable |-> "redMaterial",
     object |-> [name |-> "redMaterial"]]

ArcCameraAsset ==
    [name |-> "Arc Rotate Camera", type |-> "camera", variable |-> "arcCamera",
     object |-> ArcRotateCamera("arcCamera", GeneratedArcPose[1], GeneratedArcPose[2],
                                GeneratedArcPose[3], Origin)]

\* the assets the panel offers, one of each type
BABYLON_ASSETS == {BoxAsset, PointLightAsset, RedMaterialAsset, ArcCameraAsset}

\* assetName.split(' ')[0].toLowerCase(), on the names of the panel
FirstWordLower(name) ==
    CASE name = "Box" -> "box"
      [] name = "Point Light" -> "point"
      [] name = "Red Material" -> "red"
      [] name = "Arc Rotate Camera" -> "arc"
      [] OTHER -> name

\* the scene after the constructor call of the asset code
RunAssetCode(s, asset) ==
    CASE asset.type = "mesh" -> [s EXCEPT !.meshes = Append(@, asset.object)]
      [] asset.type = "light" -> [s EXCEPT !.lights = Append(@, asset.object)]
      [] asset.type = "camera" -> AddCamera(s, asset.object)
      [] OTHER -> s

\* a lookup that returns the oldest object of the type
NewestOfType_Oldest(sid, s, type) ==
    CASE type = "mesh" /\ Len(s.meshes) > 0 -> MeshHandle(sid, 1)
      [] type = "light" /\ Len(s.lights) > 0 -> LightHandle(sid, 1)
      [] type = "camera" /\ Len(s.cameras) > 0 -> CameraHandle(sid, 1)
      [] OTHER -> NoHandle

\* the newest object of a type in scene number sid, null without one
NewestOfType(sid, s, type) ==
    CASE type = "mesh" /\ Len(s.meshes) > 0 -> MeshHandle(sid, Len(s.meshes))
      [] type = "light" /\ Len(s.lights) > 0 -> LightHandle(sid, Len(s.lights))
      [] type = "camera" /\ Len(s.cameras) > 0 -> CameraHandle(sid, Len(s.cameras))
      [] OTHER -> NoHandle

\* what the function built around the asset code returns, s being the scene
\* after the asset code: the variable named by the first word of the asset
\* name when the code declared it, else the newest object of the asset type
ReturnedObject(sid, s, asset) ==
    IF FirstWordLower(asset.name) = asset.variable
    THEN NewestOfType(sid, s, asset.type)
    ELSE CASE asset.type \in {"mesh", "light", "camera"} -> NewestOfType(sid, s, asset.type)
           [] OTHER -> NoHandle

\* the object of scene s a handle refers to
ObjectAt(s, h) ==
    CASE h.type = "mesh" -> s.meshes[h.index]
      [] h.type = "light" -> s.lights[h.index]
      [] h.type = "camera" -> s.cameras[h.index]

\* the record addAsset stores
AssetEntry(asset, now, h, obj) ==
    [id |-> <<asset.name, now>>, name |-> asset.name, type |-> asset.type,
     babylonObject |-> h, code |-> generateObjectCode(obj, asset.name, asset.type)]

\* an addAsset that stores whatever the asset function returned
StoreIfObject_Always(objs, asset, now, h, obj) == MapSet(objs, AssetEntry(asset, now, h, obj))

\* if (babylonObject) this.objects.set(id, sceneObject)
StoreIfObject(objs, asset, now, h, obj) ==
    IF h # NoHandle THEN MapSet(objs, AssetEntry(asset, now, h, obj)) ELSE objs

\* the positions a manipulation leaves the attached mesh at
DragPositions == {<<1234, 1000, 0>>}

\* Array.from(objects.values()).find(o => o.babylonObject === mesh): the
\* index of the first entry with that handle, 0 when none has it
FindByHandle(objs, h) ==
    IF \E k \in 1..Len(objs) : objs[k].babylonObject = h
    THEN CHOOSE k \in 1..Len(objs) :
           /\ objs[k].babylonObject = h
           /\ \A j \in 1..(k - 1) : objs[j].babylonObject # h
    ELSE 0

\* updateObjectCode(entry k), but for its call of updateCode: the code of the
\* entry is generated again from its object in the scenes ss
updateObjectCode(objs, k, ss) ==
    LET h == objs[k].babylonObject
    IN  [objs EXCEPT ![k].code =
           generateObjectCode(ObjectAt(ss[h.scene], h), objs[k].name, objs[k].type)]

\* obj.position.x of a mesh with the property listeners: the getter of _x
\* calls originalSetX.call, and a number has no call
PositionThrows(ls, h) == h \in ls

\* notifyObservers of onDragEndObservable from observer i on: each observer
\* looks for the entry of its mesh and calls updateObjectCode on it, which
\* emits the text; an observer that throws ends the notification.  r holds
\* the registry, the entries regenerated so far and whether one threw.
RECURSIVE RegenerateFrom(_, _, _, _, _)
RegenerateFrom(r, ss, handlers, ls, i) ==
    IF i > Len(handlers) \/ r.threw THEN r
    ELSE LET k == FindByHandle(r.objects, handlers[i])
         IN  RegenerateFrom(
               CASE k = 0 -> r
                 [] PositionThrows(ls, handlers[i]) -> [r EXCEPT !.threw = TRUE]
                 [] OTHER -> [r EXCEPT !.objects = updateObjectCode(r.objects, k, ss),
                                       !.regenerated = Append(@, k)],
               ss, handlers, ls, i + 1)

\* what one drag-end does to the registry objs
Regenerate(objs, ss, handlers, ls) ==
    RegenerateFrom([objects |-> objs, regenerated |-> <<>>, threw |-> FALSE],
                   ss, handlers, ls, 1)

\* ------------------------------------------------------- camera snapshot

\* savedCameraState = null
NoSaved ==
    [type |-> "none", position |-> Origin, hasRotation |-> FALSE, rotation |-> Origin,
     hasTarget |-> FALSE, target |-> Origin,
     alpha |-> Undef, beta |-> Undef, radius |-> Undef]

\* the savedCameraState taken from the outgoing scene's active camera
SnapshotCamera(s) ==
    IF s.activeCamera = 0 THEN NoSaved
    ELSE LET cam == s.cameras[s.activeCamera]
             base == [NoSaved EXCEPT !.type = cam.cls, !.position = cam.position]
         IN  IF InstanceOfFreeCamera(cam)
             THEN [base EXCEPT !.hasRotation = TRUE, !.rotation = cam.rotation,
                               !.hasTarget = TRUE, !.target = cam.target]
             ELSE IF InstanceOfArcRotateCamera(cam)
             THEN [base EXCEPT !.alpha = cam.alpha, !.beta = cam.beta,
                               !.radius = cam.radius,
                               !.hasTarget = TRUE, !.target = cam.target]
             ELSE base

\* the guard of the restore step
NeedsCamera(s, saved) ==
    saved # NoSaved /\ (s.activeCamera = 0 \/ Len(s.cameras) = 0)

\* the camera the restore step constructs on the new scene, if any
RestoreCamera(s, saved) ==
    IF saved.type = "FreeCamera"
    THEN AddCamera(s, [FreeCamera("camera1", saved.position,
                                  IF saved.hasTarget THEN saved.target ELSE Origin)
                       EXCEPT !.rotation = IF saved.hasRotation THEN saved.rotation ELSE @])
    ELSE IF saved.type = "ArcRotateCamera" /\ saved.hasTarget
    THEN AddCamera(s, ArcRotateCamera("camera1", OrDefault(saved.alpha, 0),
                                      OrDefault(saved.beta, 0),
                                      OrDefault(saved.radius, 10), saved.target))
    ELSE s

\* the result of the user function used as it is
SceneOrNew_Unchecked(s) == s

\* if (!scene) scene = new BABYLON.Scene(engine)
SceneOrNew(s) == IF s.isNull THEN EmptyScene ELSE s

\* --------------------------------------------------------------- timers

\* a clearTimeout that cancels nothing
clearTimeout_Nothing(ts, ref) == ts

\* clearTimeout(ref): the pending timer with that id, if any, never fires
clearTimeout(ts, ref) == {t \in ts : t.id # ref}

\* setTimeout(callback over codeToExecute, 300)
setTimeout(id, codeToExecute) == [id |-> id, text |-> codeToExecute]

\* ------------------------------------------------------------- code editor

\* a text the user typed that does not compile: new Function(...) throws
SyntaxErrorText ==
    [t |-> "user", outcome |-> "throw", scene |-> NoScene, syntax |-> "error"]

\* the number of markers the language service sets on the model once it has
\* validated the text
Diagnostics(text) == IF text = SyntaxErrorText THEN 1 ELSE 0

\* the editor after onMount: editorRef.current is the editor, which carries a
\* _monaco or does not (monaco), its model holds the value prop and no markers
MountedEditor(value, monaco) == [monaco |-> monaco, value |-> value, markers |-> 0]

\* if (monacoInstance && model) and markers.length === 0, for the markers the
\* model holds when the change event arrives
MarkersEmpty(ed) == ed.monaco /\ ed.markers = 0

\* the value prop changed: the editor replaces the content of its model
ValueProp(ed, value) == [ed EXCEPT !.value = value]

\* ----------------------------------------------------------------- storage

\* scene.id undefined and scene.id the empty string; an id is a prefix and
\* a number
NoId == <<"undefined", 0>>

EmptyId == <<"", 0>>

\* `scene_${Date.now()}`
MintId(t) == <<"scene", t>>

\* created_at or updated_at undefined
NoDate == -1

\* a PlaygroundScene
PlaygroundScene(id, name, text, created_at) ==
    [id |-> id, name |-> name, code |-> text, language |-> "javascript",
     created_at |-> created_at, updated_at |-> NoDate]

\* null, and the undefined a call without result resolves to
NoRecord == [null |-> TRUE]

\* localStorage.getItem returns null: nothing was stored under the key
NoItem == [stored |-> FALSE, scenes |-> <<>>]

\* JSON.stringify(scenes): the text holds every record with its properties
\* that are not undefined (a property of value NoId or NoDate is left out)
JSONStringify(scenes) == [stored |-> TRUE, scenes |-> scenes]

\* JSON.parse(stored): a property the text does not hold reads undefined
JSONParse(item) == item.scenes

\* getScenes()
getScenes(item) == IF item.stored THEN JSONParse(item) ELSE <<>>

\* scenes.findIndex(s => s.id === id), counted from 1; 0 for -1
findIndex(scenes, id) ==
    IF \E k \in 1..Len(scenes) : scenes[k].id = id
    THEN CHOOSE k \in 1..Len(scenes) :
           /\ scenes[k].id = id
           /\ \A j \in 1..(k - 1) : scenes[j].id # id
    ELSE 0

\* a save that always appends
Upsert_Push(scenes, existingIndex, savedScene) == Append(scenes, savedScene)

\* scenes[existingIndex] = savedScene, or scenes.push(savedScene)
Upsert(scenes, existingIndex, savedScene) ==
    IF existingIndex >= 1
    THEN [scenes EXCEPT ![existingIndex] = savedScene]
    ELSE Append(scenes, savedScene)

\* the record saveScene builds at time t
SavedScene(scene, t) ==
    [scene EXCEPT !.id = IF scene.id \in {NoId, EmptyId} THEN MintId(t) ELSE scene.id,
                  !.updated_at = t,
                  !.created_at = IF scene.created_at = NoDate THEN t ELSE scene.created_at]

\* scenes.find(scene => scene.id === id) || null
Find(scenes, id) ==
    IF findIndex(scenes, id) = 0 THEN NoRecord ELSE scenes[findIndex(scenes, id)]

\* what a call returned: save the saved record, load a record or null
Returned(op, value) == [op |-> op, value |-> value]

NoReturn == Returned("none", NoRecord)

\* ------------------------------------------------------------------ state

VARIABLES
    engineRef,           \* TRUE when the engine was created at mount
    code,                \* the text state of the layout (the editor's value)
    renderedCode,        \* the text the code effect last ran for
    debounceTimeoutRef,  \* id of the last execution timer set, 0 for null
    timers,              \* the pending execution timers
    nextTimer,           \* the id the next setTimeout returns
    isExecuting,         \* the executing status
    error,               \* the error message on display, NoError for null
    scenes,              \* every scene stored so far, by number
    sceneRef,            \* number of the current scene, 0 for null
    published,           \* number of the scene last handed to onSceneReady
    smScene,             \* the scene manager's scene, 0 for null
    objects,             \* the registry, in insertion order
    attachedMesh,        \* the mesh the gizmo manager is attached to
    restoreTimers,       \* the pending selection restore timers
    pc,                  \* position in the timer callback, "idle" outside it
    codeToExecute,       \* the callback's text
    savedCameraState,    \* the callback's camera snapshot
    selectedMeshName,    \* the callback's selected name
    scene,               \* the callback's new scene
    caught,              \* the error the outer catch received
    steps,               \* the steps the running callback has taken
    disposeRaised,       \* dispose() raised in the running callback
    failedSince,         \* number of the execution whose script failed, 0 when none
                         \* did since the user's last edit
    disposeErrors,       \* times dispose() raised
    bursts,              \* bursts of text changes begun
    execs,               \* timer callbacks that got past the engine guard
    edits,               \* edits made by the user
    autoSelectTimers,    \* meshes of pending auto-select timers (100 ms)
    resizeTimers,        \* meshes of pending re-attach timers (50 ms)
    dragHandlers,        \* the meshes the drag-end handlers of the current
                         \* gizmo manager were registered for, in that order
    now,                 \* Date.now()
    gestures,            \* gestures of the user so far, picks apart
    printed,             \* the numbers last printed by toFixed(2), each with its text
    editor,              \* the code editor: its content and the markers of its model
    localStorage,        \* the item of localStorage that holds the saved scenes
    returned,            \* what the last call of PlaygroundStorage returned
    generated,           \* the object last handed to generateObjectCode, with the snippet
    listeners,           \* the meshes whose position has the property listeners
    gizmoManagers,       \* the scenes whose GizmoManager the manager made and did not dispose
    resizeListeners      \* the resize listeners handleSceneReady added to the window

vars ==
    <<engineRef, code, renderedCode, debounceTimeoutRef, timers, nextTimer,
      isExecuting, error, scenes, sceneRef, published, smScene, objects,
      attachedMesh, restoreTimers, pc, codeToExecute, savedCameraState,
      selectedMeshName, scene, caught, steps, disposeRaised, failedSince,
      bursts, execs, edits, disposeErrors, autoSelectTimers, resizeTimers,
      dragHandlers, now, gestures, printed, editor, localStorage, returned, generated, listeners, gizmoManagers, resizeListeners>>

\* what only the calls of PlaygroundStorage change
storageVars == <<localStorage, returned>>

\* what only the asset, resize and drag actions change
assetRest == <<autoSelectTimers, resizeTimers, now, gestures, printed>>

assetVars == <<assetRest, dragHandlers>>

canvasVars == <<isExecuting, error, scenes, sceneRef, published>>

managerVars == <<smScene, objects, attachedMesh, restoreTimers>>

localVars == <<codeToExecute, savedCameraState, selectedMeshName, scene, caught,
               steps, disposeRaised>>

timerVars == <<debounceTimeoutRef, timers, nextTimer, bursts>>

\* ------------------------------------------------------------------ mount

\* the mount with a working engine: the engine effect stores the initial scene
\* and hands it to onSceneReady, whose updateCode sets the text; the code
\* effect has run for the empty text and again for the emitted one
InitMounted ==
    /\ engineRef = TRUE
    /\ scenes = <<DefaultScene>>
    /\ sceneRef = 1
    /\ published = 1
    /\ smScene = 1
    /\ objects = syncExistingObjects(1, DefaultScene)
    /\ listeners = setupObjectPropertyListeners(1, DefaultScene)
    /\ gizmoManagers = {1}
    /\ resizeListeners = 1
    /\ code = fullCode(objects)
    /\ renderedCode = code
    /\ timers = {setTimeout(2, code)}
    /\ debounceTimeoutRef = 2
    /\ nextTimer = 3
    /\ error = NoError

\* the mount when new BABYLON.Engine throws: no scene, the text stays empty
InitEngineFailed ==
    /\ engineRef = FALSE
    /\ scenes = <<>>
    /\ sceneRef = 0
    /\ published = 0
    /\ smScene = 0
    /\ objects = <<>>
    /\ listeners = {}
    /\ gizmoManagers = {}
    /\ resizeListeners = 0
    /\ code = BlankText
    /\ renderedCode = code
    /\ timers = {setTimeout(1, code)}
    /\ debounceTimeoutRef = 1
    /\ nextTimer = 2
    /\ error = "Failed to initialize 3D engine"

InitPlayground ==
    /\ (InitMounted \/ InitEngineFailed)
    /\ isExecuting = TRUE
    /\ attachedMesh = NoHandle
    /\ restoreTimers = {}
    /\ pc = "idle"
    /\ codeToExecute = BlankText
    /\ savedCameraState = NoSaved
    /\ selectedMeshName = NoName
    /\ scene = NoScene
    /\ caught = NoError
    /\ steps = <<>>
    /\ disposeRaised = FALSE
    /\ failedSince = 0
    /\ bursts = 1
    /\ execs = 0
    /\ edits = 0
    /\ disposeErrors = 0
    /\ autoSelectTimers = {}
    /\ resizeTimers = {}
    /\ dragHandlers = <<>>
    /\ now = 0
    /\ gestures = 0
    /\ printed = <<>>
    /\ generated = NoSnippet
    /\ returned = NoReturn
    /\ localStorage = NoItem

\* the playground after the mount, with an editor whose changes can pass
Init ==
    /\ InitPlayground
    /\ editor = MountedEditor(code, TRUE)

\* ---------------------------------------------------- debounced execution

\* an executeCodeWithDelay that leaves the earlier timer pending
executeCodeWithDelay_KeepsTimer(text) ==
    /\ timers' = timers \cup {setTimeout(nextTimer, text)}
    /\ debounceTimeoutRef' = nextTimer
    /\ nextTimer' = nextTimer + 1
    /\ isExecuting' = TRUE
    /\ bursts' = IF timers = {} THEN bursts + 1 ELSE bursts

\* an executeCodeWithDelay that leaves the status as it is
executeCodeWithDelay_NoStatus(text) ==
    /\ timers' = clearTimeout(timers, debounceTimeoutRef) \cup {setTimeout(nextTimer, text)}
    /\ debounceTimeoutRef' = nextTimer
    /\ nextTimer' = nextTimer + 1
    /\ isExecuting' = isExecuting
    /\ bursts' = IF timers = {} THEN bursts + 1 ELSE bursts

\* executeCodeWithDelay(text), after the cleanup of the code effect: both clear
\* the timer debounceTimeoutRef names, then the status is set and a timer made
executeCodeWithDelay(text) ==
    /\ timers' = clearTimeout(timers, debounceTimeoutRef) \cup {setTimeout(nextTimer, text)}
    /\ debounceTimeoutRef' = nextTimer
    /\ nextTimer' = nextTimer + 1
    /\ isExecuting' = TRUE
    /\ bursts' = IF timers = {} THEN bursts + 1 ELSE bursts

\* the user edits the text and the editor passes it on: onChange(val) is
\* setCode, then the code effect runs for the new text
UserEdit(text) ==
    /\ pc = "idle"
    /\ edits < MaxEdits
    /\ gestures < MaxGestures
    /\ text # editor.value
    /\ MarkersEmpty(editor)
    /\ text # code
    /\ editor' = [editor EXCEPT !.value = text]
    /\ code' = text
    /\ renderedCode' = text
    /\ edits' = edits + 1
    /\ gestures' = gestures + 1
    /\ failedSince' = 0
    /\ executeCodeWithDelay(text)
    /\ UNCHANGED <<autoSelectTimers, resizeTimers, dragHandlers, now, printed, engineRef, error, scenes, sceneRef, published, managerVars, pc,
                   localVars, execs, disposeErrors, storageVars, generated, listeners,
                   gizmoManagers, resizeListeners>>

\* a timer callback that returns at the engine guard with the status as it is
TimerFireNoEngine_KeepsStatus ==
    /\ pc = "idle"
    /\ ~engineRef
    /\ \E t \in timers : timers' = timers \ {t}
    /\ UNCHANGED <<assetVars, engineRef, code, renderedCode, debounceTimeoutRef, nextTimer, bursts,
                   isExecuting, error, scenes, sceneRef, published, managerVars, pc,
                   localVars, failedSince, execs, edits, disposeErrors, editor, storageVars, generated, listeners,
                   gizmoManagers, resizeListeners>>

\* the timer fires without an engine: the status is reset, nothing runs
TimerFireNoEngine ==
    /\ pc = "idle"
    /\ ~engineRef
    /\ \E t \in timers : timers' = timers \ {t}
    /\ isExecuting' = FALSE
    /\ UNCHANGED <<assetVars, engineRef, code, renderedCode, debounceTimeoutRef, nextTimer, bursts,
                   error, scenes, sceneRef, published, managerVars, pc, localVars,
                   failedSince, execs, edits, disposeErrors,
                   editor, storageVars, generated, listeners,
                   gizmoManagers, resizeListeners>>

\* the timer fires with an engine: the cycle starts.  A selection restore
\* timer (100 ms) set by the previous publish is due before any execution
\* timer (300 ms) set after it; so is an auto-select timer (100 ms), because
\* the addAsset that set it also emitted the text and so set the execution
\* timer anew.
TimerFire ==
    /\ pc = "idle"
    /\ engineRef
    /\ restoreTimers = {}
    /\ autoSelectTimers = {}
    /\ \E t \in timers :
         /\ timers' = timers \ {t}
         /\ codeToExecute' = t.text
    /\ error' = NoError
    /\ savedCameraState' = NoSaved
    /\ selectedMeshName' = NoName
    /\ scene' = NoScene
    /\ caught' = NoError
    /\ steps' = <<>>
    /\ disposeRaised' = FALSE
    /\ execs' = execs + 1
    /\ pc' = "snapshot"
    /\ UNCHANGED <<assetVars, engineRef, code, renderedCode, debounceTimeoutRef, nextTimer, bursts,
                   isExecuting, scenes, sceneRef, published, managerVars,
                   failedSince, edits, disposeErrors,
                   editor, storageVars, generated, listeners,
                   gizmoManagers, resizeListeners>>

\* the name of the mesh a handle refers to
NameOf(h) == scenes[h.scene].meshes[h.index].name

\* a callback that disposes the outgoing scene first and snapshots it after
Snapshot_AfterDispose ==
    /\ pc = "snapshot"
    /\ IF sceneRef # 0
       THEN /\ scenes' = [scenes EXCEPT ![sceneRef] = Disposed(@)]
            /\ savedCameraState' = SnapshotCamera(scenes'[sceneRef])
            /\ selectedMeshName' =
                 IF attachedMesh # NoHandle THEN NameOf(attachedMesh) ELSE NoName
            /\ steps' = steps \o <<"dispose", "snapshot">>
       ELSE UNCHANGED <<scenes, savedCameraState, selectedMeshName, steps>>
    /\ pc' = "execute"
    /\ UNCHANGED <<assetVars, engineRef, code, renderedCode, timerVars, isExecuting, error,
                   sceneRef, published, managerVars, codeToExecute, scene, caught,
                   disposeRaised, failedSince, execs, edits, disposeErrors,
                   editor, storageVars, generated, listeners,
                   gizmoManagers, resizeListeners>>

\* the snapshot of the camera and of the selected name, when a scene exists
Snapshot ==
    /\ pc = "snapshot"
    /\ IF sceneRef # 0
       THEN /\ savedCameraState' = SnapshotCamera(scenes[sceneRef])
            /\ selectedMeshName' =
                 IF attachedMesh # NoHandle THEN NameOf(attachedMesh) ELSE NoName
            /\ steps' = Append(steps, "snapshot")
            /\ pc' = "dispose"
       ELSE /\ UNCHANGED <<savedCameraState, selectedMeshName, steps>>
            /\ pc' = "execute"
    /\ UNCHANGED <<assetVars, engineRef, code, renderedCode, timerVars, canvasVars, managerVars,
                   codeToExecute, scene, caught, disposeRaised, failedSince,
                   execs, edits, disposeErrors,
                   editor, storageVars, generated, listeners,
                   gizmoManagers, resizeListeners>>

\* sceneRef.current.dispose() returns
Dispose ==
    /\ pc = "dispose"
    /\ scenes' = [scenes EXCEPT ![sceneRef] = Disposed(@)]
    /\ steps' = Append(steps, "dispose")
    /\ pc' = "execute"
    /\ UNCHANGED <<assetVars, engineRef, code, renderedCode, timerVars, isExecuting, error,
                   sceneRef, published, managerVars, codeToExecute, savedCameraState,
                   selectedMeshName, scene, caught, disposeRaised, failedSince,
                   execs, edits, disposeErrors,
                   editor, storageVars, generated, listeners,
                   gizmoManagers, resizeListeners>>

\* sceneRef.current.dispose() raises: control leaves the try block for the
\* outer catch, the scene torn down or not
DisposeRaises ==
    /\ pc = "dispose"
    /\ disposeErrors < MaxDisposeErrors
    /\ disposeErrors' = disposeErrors + 1
    /\ \E done \in BOOLEAN :
         scenes' = [scenes EXCEPT ![sceneRef] = IF done THEN Disposed(@) ELSE @]
    /\ steps' = Append(steps, "dispose")
    /\ disposeRaised' = TRUE
    /\ caught' = "dispose failed"
    /\ pc' = "catch"
    /\ UNCHANGED <<assetVars, engineRef, code, renderedCode, timerVars, isExecuting, error,
                   sceneRef, published, managerVars, codeToExecute, savedCameraState,
                   selectedMeshName, scene, failedSince, execs, edits,
                   editor, storageVars, generated, listeners,
                   gizmoManagers, resizeListeners>>

\* the scene and the error message the execute step produces for a text
ExecuteResult(text) ==
    IF text = BlankText
    THEN [scene |-> DefaultScene, error |-> NoError]
    ELSE LET r == userFunction(text)
         IN  IF r.outcome = "throw"
             THEN [scene |-> FallbackScene, error |-> "Error in user code"]
             ELSE [scene |-> SceneOrNew(r.scene), error |-> NoError]

\* the user code runs inside its own try/catch, or the default scene is built
Execute ==
    /\ pc = "execute"
    /\ LET r == ExecuteResult(codeToExecute)
       IN  /\ scene' = r.scene
           /\ error' = IF r.error # NoError THEN r.error ELSE error
           /\ failedSince' = IF r.error # NoError THEN execs ELSE failedSince
    /\ steps' = Append(steps, "execute")
    /\ pc' = "restore"
    /\ UNCHANGED <<assetVars, engineRef, code, renderedCode, timerVars, isExecuting, scenes,
                   sceneRef, published, managerVars, codeToExecute, savedCameraState,
                   selectedMeshName, caught, disposeRaised, execs, edits, disposeErrors,
                   editor, storageVars, generated, listeners,
                   gizmoManagers, resizeListeners>>

\* the camera is rebuilt from the snapshot when the new scene has none; reading
\* a property of a null scene raises
Restore ==
    /\ pc = "restore"
    /\ IF scene.isNull
       THEN /\ caught' = "Cannot read properties of null"
            /\ pc' = "catch"
            /\ UNCHANGED <<scene, steps>>
       ELSE /\ IF NeedsCamera(scene, savedCameraState)
               THEN /\ scene' = RestoreCamera(scene, savedCameraState)
                    /\ steps' = IF scene' # scene THEN Append(steps, "restore") ELSE steps
               ELSE UNCHANGED <<scene, steps>>
            /\ pc' = "publish"
            /\ UNCHANGED caught
    /\ UNCHANGED <<assetVars, engineRef, code, renderedCode, timerVars, canvasVars, managerVars,
                   codeToExecute, savedCameraState, selectedMeshName, disposeRaised,
                   failedSince, execs, edits, disposeErrors,
                   editor, storageVars, generated, listeners,
                   gizmoManagers, resizeListeners>>

\* the new scene is stored and handed to onSceneReady: setScene makes a gizmo
\* manager for it, rebuilds the registry and emits the text (setCode); a
\* selection restore timer is set when a name was snapshotted.  The canvas, the
\* manager, the registry and the gizmo now all refer to the new scene, so the
\* earlier scenes are garbage, but for those a pending re-attach timer holds a
\* mesh of.
Publish ==
    /\ pc = "publish"
    /\ LET sid == Len(scenes) + 1
           stored == [scene EXCEPT !.selectedMeshName = selectedMeshName]
       IN  /\ scenes' = Append([i \in 1..Len(scenes) |->
                                 IF \E h \in resizeTimers : h.scene = i
                                 THEN scenes[i] ELSE Collected], stored)
           /\ sceneRef' = sid
           /\ published' = sid
           /\ smScene' = sid
           /\ objects' = syncExistingObjects(sid, stored)
           /\ listeners' = setupObjectPropertyListeners(sid, stored)
           /\ gizmoManagers' = setupGizmos(gizmoManagers, sid)
           /\ resizeListeners' = addEventListener(resizeListeners)
           /\ code' = fullCode(objects')
           /\ editor' = IF code' # code THEN ValueProp(editor, code') ELSE editor
    /\ attachedMesh' = NoHandle
    /\ dragHandlers' = <<>>
    /\ restoreTimers' = IF selectedMeshName # NoName
                        THEN restoreTimers \cup {selectedMeshName} ELSE restoreTimers
    /\ steps' = Append(steps, "publish")
    /\ pc' = "finally"
    /\ UNCHANGED <<assetRest, engineRef, renderedCode, timerVars, isExecuting, error,
                   codeToExecute, savedCameraState, selectedMeshName, scene, caught,
                   disposeRaised, failedSince, execs, edits, disposeErrors, storageVars,
                   generated>>

\* the outer catch: the message is shown and onError called
Catch ==
    /\ pc = "catch"
    /\ error' = caught
    /\ pc' = "finally"
    /\ UNCHANGED <<assetVars, engineRef, code, renderedCode, timerVars, isExecuting, scenes,
                   sceneRef, published, managerVars, localVars, failedSince,
                   execs, edits, disposeErrors,
                   editor, storageVars, generated, listeners,
                   gizmoManagers, resizeListeners>>

\* finally: the status is reset and the callback returns, its locals gone; a
\* text set during the callback makes the code effect run next
Finally ==
    /\ pc = "finally"
    /\ isExecuting' = FALSE
    /\ savedCameraState' = NoSaved
    /\ selectedMeshName' = NoName
    /\ scene' = NoScene
    /\ caught' = NoError
    /\ pc' = IF code # renderedCode THEN "effect" ELSE "idle"
    /\ UNCHANGED <<assetVars, engineRef, code, renderedCode, timerVars, error, scenes, sceneRef,
                   published, managerVars, codeToExecute, steps, disposeRaised,
                   failedSince, execs, edits, disposeErrors,
                   editor, storageVars, generated, listeners,
                   gizmoManagers, resizeListeners>>

\* the code effect runs for the text the publish step emitted
CodeEffect ==
    /\ pc = "effect"
    /\ renderedCode' = code
    /\ executeCodeWithDelay(code)
    /\ pc' = "idle"
    /\ UNCHANGED <<assetVars, engineRef, code, error, scenes, sceneRef, published, managerVars,
                   localVars, failedSince, execs, edits, disposeErrors,
                   editor, storageVars, generated, listeners,
                   gizmoManagers, resizeListeners>>

\* --------------------------------------------------- gizmo and selection

\* the index of the first mesh of scene s with that name, 0 when none has it
MeshByName(s, name) ==
    IF \E i \in 1..Len(s.meshes) : s.meshes[i].name = name
    THEN CHOOSE i \in 1..Len(s.meshes) :
           /\ s.meshes[i].name = name
           /\ \A j \in 1..(i - 1) : s.meshes[j].name # name
    ELSE 0

\* the positions of the meshes a pointer can hit
MeshIndices == IF smScene = 0 THEN {} ELSE 1..Len(scenes[smScene].meshes)

\* setupGizmoEvents(mesh): one more drag-end handler for that mesh, after
\* those registered before
setupGizmoEvents(handlers, h) == Append(handlers, h)

\* a pick that attaches only when nothing is attached
PickHit_KeepsFirst(i) ==
    /\ pc = "idle"
    /\ smScene # 0
    /\ ~scenes[smScene].disposed
    /\ i \in 1..Len(scenes[smScene].meshes)
    /\ Len(dragHandlers) < MaxHandlers
    /\ attachedMesh' = IF attachedMesh = NoHandle
                       THEN MeshHandle(smScene, i) ELSE attachedMesh
    /\ dragHandlers' = setupGizmoEvents(dragHandlers, MeshHandle(smScene, i))
    /\ UNCHANGED <<assetRest, engineRef, code, renderedCode, timerVars, canvasVars,
                   smScene, objects, restoreTimers, pc, localVars, failedSince, execs,
                   edits, disposeErrors,
                   editor, storageVars, generated, listeners,
                   gizmoManagers, resizeListeners>>

\* a pick that attaches whatever mesh it hits
PickHit_AnyMesh(i) ==
    /\ pc = "idle"
    /\ smScene # 0
    /\ ~scenes[smScene].disposed
    /\ i \in 1..Len(scenes[smScene].meshes)
    /\ Len(dragHandlers) < MaxHandlers
    /\ attachedMesh' = MeshHandle(smScene, i)
    /\ dragHandlers' = setupGizmoEvents(dragHandlers, MeshHandle(smScene, i))
    /\ UNCHANGED <<assetRest, engineRef, code, renderedCode, timerVars, canvasVars,
                   smScene, objects, restoreTimers, pc, localVars, failedSince, execs,
                   edits, disposeErrors,
                   editor, storageVars, generated, listeners,
                   gizmoManagers, resizeListeners>>

\* a pointer pick that hits mesh i of the live scene: but for the ground and
\* the skybox the mesh is attached and drag-end handlers are registered for it
PickHit(i) ==
    /\ pc = "idle"
    /\ smScene # 0
    /\ ~scenes[smScene].disposed
    /\ i \in 1..Len(scenes[smScene].meshes)
    /\ IF scenes[smScene].meshes[i].name \notin {"ground", "skybox"}
       THEN /\ Len(dragHandlers) < MaxHandlers
            /\ attachedMesh' = MeshHandle(smScene, i)
            /\ dragHandlers' = setupGizmoEvents(dragHandlers, MeshHandle(smScene, i))
       ELSE UNCHANGED <<attachedMesh, dragHandlers>>
    /\ UNCHANGED <<assetRest, engineRef, code, renderedCode, timerVars, canvasVars,
                   smScene, objects, restoreTimers, pc, localVars, failedSince, execs,
                   edits, disposeErrors,
                   editor, storageVars, generated, listeners,
                   gizmoManagers, resizeListeners>>

\* a pick on empty space
PickMiss ==
    /\ pc = "idle"
    /\ smScene # 0
    /\ ~scenes[smScene].disposed
    /\ attachedMesh' = NoHandle
    /\ UNCHANGED <<assetVars, engineRef, code, renderedCode, timerVars, canvasVars, smScene,
                   objects, restoreTimers, pc, localVars, failedSince, execs, edits,
                   disposeErrors,
                   editor, storageVars, generated, listeners,
                   gizmoManagers, resizeListeners>>

\* restoreSelection(name), 100 ms after the publish step: the mesh of the
\* manager's scene with that name is attached, as a pick attaches it; without
\* one nothing is done.  A re-attach timer (50 ms) set before the publish step
\* is due first.
restoreSelection(name) ==
    /\ pc \in {"idle", "unmounted"}
    /\ name \in restoreTimers
    /\ \A h \in resizeTimers : h.scene = smScene
    /\ restoreTimers' = restoreTimers \ {name}
    /\ LET i == MeshByName(scenes[smScene], name)
       IN  IF i # 0
           THEN /\ attachedMesh' = MeshHandle(smScene, i)
                /\ dragHandlers' = setupGizmoEvents(dragHandlers, MeshHandle(smScene, i))
           ELSE UNCHANGED <<attachedMesh, dragHandlers>>
    /\ UNCHANGED <<assetRest, engineRef, code, renderedCode, timerVars, canvasVars,
                   smScene, objects, pc, localVars, failedSince, execs, edits,
                   disposeErrors,
                   editor, storageVars, generated, listeners,
                   gizmoManagers, resizeListeners>>

\* ------------------------------------------------ assets, resizes, drags

\* onCodeUpdate(fullCode): setCode; a text that differs makes the code effect
\* run, which sets the execution timer anew
setCode(text) ==
    IF text # code
    THEN /\ code' = text
         /\ renderedCode' = text
         /\ failedSince' = 0
         /\ executeCodeWithDelay(text)
         /\ editor' = ValueProp(editor, text)
    ELSE UNCHANGED <<code, renderedCode, failedSince, timerVars, isExecuting, editor>>

\* addAsset(asset.code, asset.name, asset.type), from a click in the panel.
\* The asset code runs in the manager's scene; a camera asset ends with
\* attachControl(canvas, true) on a canvas that is window.canvas, which the
\* engine may refuse (throws).  A returned object is stored under
\* name_Date.now(), the text is emitted and a mesh gets an auto-select timer.
addAsset(asset, throws) ==
    /\ pc = "idle"
    /\ smScene # 0
    /\ gestures < MaxGestures
    /\ throws => asset.type = "camera"
    /\ gestures' = gestures + 1
    /\ LET s1 == RunAssetCode(scenes[smScene], asset)
           h == IF throws THEN NoHandle ELSE ReturnedObject(smScene, s1, asset)
           obj == IF h = NoHandle THEN asset.object ELSE ObjectAt(s1, h)
       IN  /\ scenes' = [scenes EXCEPT ![smScene] = s1]
           /\ objects' = IF throws THEN objects
                         ELSE StoreIfObject(objects, asset, now, h, obj)
           /\ IF h # NoHandle
              THEN /\ setCode(fullCode(objects'))
                   /\ autoSelectTimers' = IF asset.type = "mesh"
                                          THEN autoSelectTimers \cup {h}
                                          ELSE autoSelectTimers
              ELSE UNCHANGED <<code, renderedCode, failedSince, timerVars, isExecuting,
                               autoSelectTimers, editor>>
    /\ UNCHANGED <<engineRef, error, sceneRef, published, smScene, attachedMesh,
                   restoreTimers, pc, localVars, execs, edits, disposeErrors,
                   resizeTimers, dragHandlers, now, printed, storageVars, generated, listeners,
                   gizmoManagers, resizeListeners>>

\* the clock moves on; only an id made from the present value can tell
Tick ==
    /\ pc = "idle"
    /\ \E k \in 1..Len(objects) : objects[k].id = <<objects[k].name, now>>
    /\ now' = now + 1
    /\ UNCHANGED <<engineRef, code, renderedCode, timerVars, canvasVars, managerVars,
                   pc, localVars, failedSince, execs, edits, disposeErrors,
                   autoSelectTimers, resizeTimers, dragHandlers, gestures, printed,
                   editor, storageVars, generated, listeners,
                   gizmoManagers, resizeListeners>>

\* the auto-select timer of addAsset fires: attachToMesh, setupGizmoEvents
AutoSelect(h) ==
    /\ pc \in {"idle", "unmounted"}
    /\ h \in autoSelectTimers
    /\ autoSelectTimers' = autoSelectTimers \ {h}
    /\ attachedMesh' = h
    /\ dragHandlers' = setupGizmoEvents(dragHandlers, h)
    /\ UNCHANGED <<engineRef, code, renderedCode, timerVars, canvasVars, smScene,
                   objects, restoreTimers, pc, localVars, failedSince, execs, edits,
                   disposeErrors, resizeTimers, now, gestures, printed,
                   editor, storageVars, generated, listeners,
                   gizmoManagers, resizeListeners>>

\* a handleResize that detaches the mesh and sets no timer
handleResize_DetachOnly ==
    /\ pc = "idle"
    /\ smScene # 0
    /\ attachedMesh # NoHandle
    /\ gestures < MaxGestures
    /\ gestures' = gestures + 1
    /\ attachedMesh' = NoHandle
    /\ UNCHANGED <<engineRef, code, renderedCode, timerVars, canvasVars, smScene,
                   objects, restoreTimers, pc, localVars, failedSince, execs, edits,
                   disposeErrors, autoSelectTimers, resizeTimers, dragHandlers, now,
                   printed,
                   editor, storageVars, generated, listeners,
                   gizmoManagers, resizeListeners>>

\* handleResize with a mesh attached: it is detached and a timer set to
\* attach it again.  With nothing attached handleResize changes nothing.
handleResize ==
    /\ pc = "idle"
    /\ smScene # 0
    /\ attachedMesh # NoHandle
    /\ gestures < MaxGestures
    /\ gestures' = gestures + 1
    /\ attachedMesh' = NoHandle
    /\ resizeTimers' = resizeTimers \cup {attachedMesh}
    /\ UNCHANGED <<engineRef, code, renderedCode, timerVars, canvasVars, smScene,
                   objects, restoreTimers, pc, localVars, failedSince, execs, edits,
                   disposeErrors, autoSelectTimers, dragHandlers, now, printed,
                   editor, storageVars, generated, listeners,
                   gizmoManagers, resizeListeners>>

\* the re-attach timer fires: the gizmo manager of that moment gets the mesh
ResizeReattach(h) ==
    /\ pc \in {"idle", "unmounted"}
    /\ h \in resizeTimers
    /\ resizeTimers' = resizeTimers \ {h}
    /\ attachedMesh' = h
    /\ UNCHANGED <<engineRef, code, renderedCode, timerVars, canvasVars, smScene,
                   objects, restoreTimers, pc, localVars, failedSince, execs, edits,
                   disposeErrors, autoSelectTimers, dragHandlers, now, gestures, printed,
                   editor, storageVars, generated, listeners,
                   gizmoManagers, resizeListeners>>

\* a manipulation of the attached mesh of the live scene ends.  The gizmo
\* leaves the mesh at position p unless writing the position throws; then the
\* registered drag-end handlers run updateCodeFromMesh
DragEnd(p) ==
    /\ pc = "idle"
    /\ attachedMesh # NoHandle
    /\ attachedMesh.scene = smScene
    /\ ~scenes[smScene].disposed
    /\ gestures < MaxGestures
    /\ gestures' = gestures + 1
    /\ scenes' = IF PositionThrows(listeners, attachedMesh) THEN scenes
                 ELSE [scenes EXCEPT ![smScene].meshes[attachedMesh.index].position = p]
    /\ objects' = Regenerate(objects, scenes', dragHandlers, listeners).objects
    /\ IF Regenerate(objects, scenes', dragHandlers, listeners).regenerated # <<>>
       THEN setCode(fullCode(objects'))
       ELSE UNCHANGED <<code, renderedCode, failedSince, timerVars, isExecuting, editor>>
    /\ UNCHANGED <<engineRef, error, sceneRef, published, smScene, attachedMesh,
                   restoreTimers, pc, localVars, execs, edits, disposeErrors,
                   autoSelectTimers, resizeTimers, dragHandlers, now, printed, storageVars, generated, listeners,
                   gizmoManagers, resizeListeners>>

\* the user closes the playground: the cleanup of the code effect clears the
\* execution timer, the cleanup of the engine effect (there is one when the
\* engine was created) disposes the current scene and the engine.  The timers
\* of the scene manager and of handleSceneReady are left to fire; the handlers
\* of the page are gone.
Unmount ==
    /\ pc = "idle"
    /\ gestures < MaxGestures
    /\ gestures' = gestures + 1
    /\ pc' = "unmounted"
    /\ timers' = clearTimeout(timers, debounceTimeoutRef)
    /\ scenes' = IF engineRef /\ sceneRef # 0
                 THEN [scenes EXCEPT ![sceneRef] = Disposed(@)] ELSE scenes
    /\ UNCHANGED <<engineRef, code, renderedCode, debounceTimeoutRef, nextTimer, bursts,
                   isExecuting, error, sceneRef, published, managerVars, localVars,
                   failedSince, execs, edits, disposeErrors, autoSelectTimers,
                   resizeTimers, dragHandlers, now, printed,
                   editor, storageVars, generated, listeners,
                   gizmoManagers, resizeListeners>>

\* ---------------------------------------------------------- specification

Next ==
    \/ \E text \in UserTexts : UserEdit(text)
    \/ \E asset \in BABYLON_ASSETS, throws \in BOOLEAN : addAsset(asset, throws)
    \/ Tick
    \/ \E h \in autoSelectTimers : AutoSelect(h)
    \/ handleResize
    \/ \E h \in resizeTimers : ResizeReattach(h)
    \/ \E p \in DragPositions : DragEnd(p)
    \/ Unmount
    \/ TimerFireNoEngine
    \/ TimerFire
    \/ Snapshot
    \/ Dispose
    \/ DisposeRaises
    \/ Execute
    \/ Restore
    \/ Publish
    \/ Catch
    \/ Finally
    \/ CodeEffect
    \/ \E i \in MeshIndices : PickHit(i)
    \/ PickMiss
    \/ \E name \in restoreTimers : restoreSelection(name)

Spec == Init /\ [][Next]_vars

\* The state the playground is in once the user has replaced the text of the
\* mount by FreeText and the replace cycle for it has run: the scene of that
\* text is published, the registry rebuilt from it, and the execution timer for
\* the text updateCode emitted is pending.  n is the number of gestures
\* counted so far.
AfterFirstEdit(n) ==
    LET stored == FreeText.scene
    IN  /\ engineRef = TRUE
        /\ scenes = <<Collected, stored>>
        /\ sceneRef = 2
        /\ published = 2
        /\ smScene = 2
        /\ objects = syncExistingObjects(2, stored)
        /\ code = fullCode(objects)
        /\ renderedCode = code
        /\ timers = {setTimeout(4, code)}
        /\ debounceTimeoutRef = 4
        /\ nextTimer = 5
        /\ isExecuting = TRUE
        /\ error = NoError
        /\ attachedMesh = NoHandle
        /\ restoreTimers = {}
        /\ pc = "idle"
        /\ codeToExecute = FreeText
        /\ savedCameraState = NoSaved
        /\ selectedMeshName = NoName
        /\ scene = NoScene
        /\ caught = NoError
        /\ steps = <<"snapshot", "dispose", "execute", "publish">>
        /\ disposeRaised = FALSE
        /\ failedSince = 0
        /\ bursts = 2
        /\ execs = 1
        /\ edits = n
        /\ gestures = n
        /\ disposeErrors = 0
        /\ autoSelectTimers = {}
        /\ resizeTimers = {}
        /\ dragHandlers = <<>>
        /\ now = 0
        /\ printed = <<>>
        /\ gizmoManagers = {1, 2}
        /\ resizeListeners = 2
        /\ listeners = setupObjectPropertyListeners(2, stored)
        /\ generated = NoSnippet
        /\ returned = NoReturn
        /\ localStorage = NoItem
        /\ editor = MountedEditor(code, TRUE)

\* the playground from that state on (and from a mount without engine), the
\* gestures counted from there
InitAfterEdit == AfterFirstEdit(0) \/ (Init /\ ~engineRef)

SpecAfterEdit == InitAfterEdit /\ [][Next]_vars

\* -------------------------------------------------------- number printing

\* the numbers a transform component or an intensity can hold: whole ones,
\* ones with more than two decimals, negative ones, NaN and huge ones
PrintedNumbers ==
    {Finite(1000), Finite(333), Finite(0), Finite(-1), Finite(1234), Finite(-2500),
     NaN, Huge}

\* the canvas, the scene manager and the counters but for gestures and clock
playgroundVarsButClock ==
    <<engineRef, code, renderedCode, debounceTimeoutRef, timers, nextTimer,
      isExecuting, error, scenes, sceneRef, published, smScene, objects,
      attachedMesh, restoreTimers, pc, codeToExecute, savedCameraState,
      selectedMeshName, scene, caught, steps, disposeRaised, failedSince,
      bursts, execs, edits, disposeErrors, autoSelectTimers, resizeTimers,
      dragHandlers>>

playgroundVarsButGestures == <<playgroundVarsButClock, now>>

\* everything but the printed numbers
playgroundVars == <<playgroundVarsButGestures, gestures, editor, storageVars, generated, listeners, gizmoManagers, resizeListeners>>

\* generateObjectCode prints the three components of a position, a rotation
\* or a scaling
PrintVector(v) ==
    /\ printed' = [i \in 1..3 |-> [input |-> v[i], text |-> toFixed(v[i])]]
    /\ UNCHANGED playgroundVars

\* generateObjectCode prints the intensity of a light
PrintIntensity(x) ==
    /\ printed' = <<[input |-> x, text |-> toFixed(x)]>>
    /\ UNCHANGED playgroundVars

NextPrint ==
    \/ \E v \in PrintedNumbers \X PrintedNumbers \X PrintedNumbers : PrintVector(v)
    \/ \E x \in PrintedNumbers : PrintIntensity(x)

\* what happens without the user: timers fire, the callback and the effects
\* that follow it run
TimerStep ==
    \/ TimerFireNoEngine
    \/ TimerFire
    \/ Snapshot
    \/ Dispose
    \/ DisposeRaises
    \/ Execute
    \/ Restore
    \/ Publish
    \/ Catch
    \/ Finally
    \/ CodeEffect
    \/ \E h \in autoSelectTimers : AutoSelect(h)
    \/ \E h \in resizeTimers : ResizeReattach(h)
    \/ \E name \in restoreTimers : restoreSelection(name)

\* the steps of the playground but for the pointer picks, which change the
\* attached mesh and the drag-end handlers only, as the auto-select of an
\* added mesh also does
NextLive ==
    \/ \E text \in UserTexts : UserEdit(text)
    \/ \E asset \in BABYLON_ASSETS, throws \in BOOLEAN : addAsset(asset, throws)
    \/ Tick
    \/ handleResize
    \/ \E p \in DragPositions : DragEnd(p)
    \/ Unmount
    \/ TimerStep

\* the playground with the event loop at work: a timer that is due fires and a
\* callback that has begun runs to its end
SpecLive == Init /\ [][NextLive]_vars /\ WF_vars(TimerStep)

\* the printing of numbers on its own, for every number a component can hold
SpecPrint == Init /\ [][NextPrint]_vars

\* ------------------------------------------------------ code generation

\* names of meshes: with one of the words, with two, with none, with a
\* capital letter
MeshNames ==
    {"box", "sphere", "cylinder", "plane", "torus", "sandbox sphere", "plane torus",
     "Sphere", "lamp"}

\* the vectors a transform holds
Vectors == {Origin, <<0, 1000, 0>>, <<1234, 1000, 0>>, <<-2500, 333, 1000>>}

\* the meshes handed to generateObjectCode, each under its own name
GeneratedMeshes ==
    {[obj |-> [Mesh(name, position) EXCEPT !.rotation = rotation], name |-> name,
      type |-> "mesh"] :
       name \in MeshNames, position \in Vectors, rotation \in {Origin, <<0, 1571, 0>>}}

\* the lights: the three classes the switch names, the default one and one
\* more
GeneratedLights ==
    {[obj |-> [name |-> "lamp", cls |-> cls, intensity |-> intensity], name |-> "lamp",
      type |-> "light"] :
       cls \in {"DirectionalLight", "PointLight", "SpotLight", "HemisphericLight",
                "RectAreaLight"},
       intensity \in {700, 1000, 333}}

\* the cameras, under the name of the camera asset
GeneratedCameras ==
    {[obj |-> camera, name |-> "Arc Rotate Camera", type |-> "camera"] :
       camera \in {ArcRotateCamera("arcCamera", 3, 1, 10, Origin),
                   FreeCamera("camera1", DefaultCameraPosition, Origin),
                   UniversalCamera("cam", <<1, 2, 3>>, Origin)}}

\* objects of the kinds the switch does not name
GeneratedOthers ==
    {[obj |-> [name |-> "redMat"], name |-> "Red Material", type |-> type] :
       type \in {"material", "texture"}}

\* generateObjectCode(obj, name, type)
Generate(obj, name, type) ==
    /\ generated' = [obj |-> obj, name |-> name, type |-> type,
                     code |-> generateObjectCode(obj, name, type)]
    /\ UNCHANGED <<playgroundVarsButGestures, gestures, printed, editor, storageVars, listeners, gizmoManagers, resizeListeners>>

NextGenerate ==
    \/ \E g \in GeneratedMeshes : Generate(g.obj, g.name, g.type)
    \/ \E g \in GeneratedLights : Generate(g.obj, g.name, g.type)
    \/ \E g \in GeneratedCameras : Generate(g.obj, g.name, g.type)
    \/ \E g \in GeneratedOthers : Generate(g.obj, g.name, g.type)

\* the code generator on its own, for objects of every kind
SpecGenerate == Init /\ [][NextGenerate]_vars

\* --------------------------------------------------------- saved scenes

\* the last value of the clock in the runs of the storage
MaxClock == 1

\* the ids a caller passes: none, the empty one, one of its own, minted ones
SceneIds == {NoId, EmptyId, <<"mine", 0>>} \cup {MintId(t) : t \in 0..MaxClock}

\* the records a caller saves
SavedInputs ==
    {PlaygroundScene(id, "Scene", text, created_at) :
       id \in SceneIds, text \in {"code 1", "code 2"}, created_at \in {NoDate, 0}}

\* everything but the storage and the clock
allButStorage ==
    <<playgroundVarsButClock, gestures, printed, editor, generated, listeners,
      gizmoManagers, resizeListeners>>

\* saveScene(scene); quota: localStorage.setItem throws, the store being full
saveScene(playgroundScene, quota) ==
    LET savedScenes == getScenes(localStorage)
        savedScene == SavedScene(playgroundScene, now)
        existingIndex == findIndex(savedScenes, savedScene.id)
    IN  /\ IF quota
           THEN /\ returned' = Returned("save rejected", NoRecord)
                /\ UNCHANGED localStorage
           ELSE /\ localStorage' = JSONStringify(Upsert(savedScenes, existingIndex, savedScene))
                /\ returned' = Returned("save", savedScene)
        /\ UNCHANGED <<allButStorage, now>>

\* loadScene(id)
loadScene(id) ==
    /\ returned' = Returned("load", Find(getScenes(localStorage), id))
    /\ UNCHANGED <<allButStorage, now, localStorage>>

\* deleteScene(id)
deleteScene(id) ==
    /\ localStorage' = JSONStringify(SelectSeq(getScenes(localStorage),
                                               LAMBDA s : s.id # id))
    /\ returned' = Returned("delete", NoRecord)
    /\ UNCHANGED <<allButStorage, now>>

\* a millisecond passes
ClockTick ==
    /\ now < MaxClock
    /\ now' = now + 1
    /\ UNCHANGED <<allButStorage, storageVars>>

NextStorage ==
    \/ \E playgroundScene \in SavedInputs, quota \in BOOLEAN :
         saveScene(playgroundScene, quota)
    \/ \E id \in SceneIds : loadScene(id)
    \/ \E id \in SceneIds : deleteScene(id)
    \/ ClockTick

\* the calls of PlaygroundStorage on their own
SpecStorage == Init /\ [][NextStorage]_vars

\* ---------------------------------------------------- editing in the editor

\* the texts the user types: ones that compile and one that does not
EditorTexts == {SceneLessText, FreeText, SyntaxErrorText}

\* a change of the content the editor does not pass on, the model holding
\* markers or the editor no _monaco, or passes on to a setCode of the text the
\* layout already has
EditorSkip(text) ==
    /\ pc = "idle"
    /\ gestures < MaxGestures
    /\ text # editor.value
    /\ ~MarkersEmpty(editor) \/ text = code
    /\ gestures' = gestures + 1
    /\ editor' = [editor EXCEPT !.value = text]
    /\ UNCHANGED <<playgroundVarsButGestures, printed, storageVars, generated, listeners, gizmoManagers, resizeListeners>>

\* the language service has validated the content and sets the markers of the
\* model, some time after the change
Validate ==
    /\ pc = "idle"
    /\ editor.markers # Diagnostics(editor.value)
    /\ editor' = [editor EXCEPT !.markers = Diagnostics(editor.value)]
    /\ UNCHANGED <<playgroundVarsButGestures, gestures, printed, storageVars, generated, listeners, gizmoManagers, resizeListeners>>

\* the execution timer and the callback it starts
CanvasStep ==
    \/ TimerFireNoEngine
    \/ TimerFire
    \/ Snapshot
    \/ Dispose
    \/ DisposeRaises
    \/ Execute
    \/ Restore
    \/ Publish
    \/ Catch
    \/ Finally
    \/ CodeEffect

NextEditor ==
    \/ \E text \in EditorTexts : UserEdit(text)
    \/ \E text \in EditorTexts : EditorSkip(text)
    \/ Validate
    \/ CanvasStep

\* the mount with an editor that carries a _monaco or does not
InitEditor ==
    /\ InitPlayground
    /\ editor \in {MountedEditor(code, monaco) : monaco \in BOOLEAN}

\* the editor and the canvas, without the panel and the pointer
SpecEditor == InitEditor /\ [][NextEditor]_vars

\* ------------------------------------------------------- feedback loop

\* the texts the one edit can produce
QuiesceTexts == UserTexts \cup {NearOriginText}

\* the first edit of the user
FirstEdit(text) == edits = 0 /\ UserEdit(text)

NextQuiesce ==
    \/ \E text \in QuiesceTexts : FirstEdit(text)
    \/ CanvasStep

\* one edit and then no input: the timers fire and the callbacks run
SpecQuiesce == Init /\ [][NextQuiesce]_vars /\ WF_vars(CanvasStep)

\* ------------------------------------------------------- derived notions

\* the callback is between its start and its publish step
Replacing == pc \in {"snapshot", "dispose", "execute", "restore", "publish"}

\* a callback is running (steps and codeToExecute are then its own; after it
\* they stay as the record of the last cycle)
InCallback == Replacing \/ pc \in {"catch", "finally"}

\* the running callback has taken this step
Took(step) == \E i \in 1..Len(steps) : steps[i] = step

\* the running callback has published its scene
PublishedNow == Len(steps) > 0 /\ steps[Len(steps)] = "publish"

\* the position of a step in the replace cycle
StepRank(step) ==
    CASE step = "snapshot" -> 1
      [] step = "dispose" -> 2
      [] step = "execute" -> 3
      [] step = "restore" -> 4
      [] step = "publish" -> 5

\* the steps taken are in cycle order, none twice, the snapshot before any
\* dispose and the execution before any restore or publish
StepsInOrder ==
    /\ \A i, j \in 1..Len(steps) : i < j => StepRank(steps[i]) < StepRank(steps[j])
    /\ Took("dispose") => steps[1] = "snapshot"
    /\ (Took("restore") \/ Took("publish")) => Took("execute")

\* the script of the running callback threw
ScriptThrew ==
    /\ InCallback
    /\ codeToExecute # BlankText
    /\ userFunction(codeToExecute).outcome = "throw"
    /\ Took("execute")

\* the script of the running callback returned no scene
ScriptReturnedNothing ==
    /\ InCallback
    /\ codeToExecute # BlankText
    /\ userFunction(codeToExecute).outcome = "none"
    /\ Took("execute")

HasDefaultCameraAndLight(s) ==
    /\ \E i \in 1..Len(s.cameras) : s.cameras[i] = DefaultCamera
    /\ s.activeCamera # 0
    /\ \E i \in 1..Len(s.lights) : s.lights[i] = DefaultLight

\* ------------------------------------------------------------------ claims

\* C1 as stated: every burst of text changes ends in exactly one execution, of
\* the last text: with no timer pending and no callback running there have
\* been as many executions as bursts, and a starting execution has the
\* current text.
C1_Claim ==
    /\ (pc = "idle" /\ timers = {}) => execs = bursts
    /\ pc = "snapshot" => codeToExecute = code

\* C1 (amended): when the engine was created at mount, every burst of text
\* changes ends in exactly one execution, which runs the text of the last
\* change; when the engine could not be created, the one timer left of a burst
\* only resets the status and nothing is executed.  A burst the unmount cuts
\* short ends in no execution.
C1_Debounce ==
    /\ (engineRef /\ pc # "unmounted") => execs + Cardinality(timers) = bursts
    /\ ~engineRef => (execs = 0 /\ pc \in {"idle", "unmounted"})
    /\ pc = "snapshot" => codeToExecute = code

\* a burst of three changes (the text emitted at mount, then every edit of the
\* user) has ended in one execution, of the last text
C1_Witness ==
    /\ engineRef
    /\ edits = 2
    /\ bursts = 1
    /\ execs = 1
    /\ timers = {}
    /\ pc = "snapshot"
    /\ codeToExecute = code

\* C2: at most one execution timer is pending, it is the one set last and it
\* is for the current text; while a scene replacement runs none is pending and
\* the replacement is for the current text.
C2_LastWriteWins ==
    /\ Cardinality(timers) <= 1
    /\ \A t \in timers : t.id = debounceTimeoutRef /\ t.text = code
    /\ Replacing => (timers = {} /\ codeToExecute = code)

\* an edit arrived while a timer was pending: the one timer left is the new one
C2_Witness ==
    /\ edits >= 1
    /\ bursts = 1
    /\ execs = 0
    /\ timers = {setTimeout(debounceTimeoutRef, code)}
    /\ debounceTimeoutRef = nextTimer - 1
    /\ code \in UserTexts

\* C3 as stated: a cycle that started ends with a live scene that is the
\* current scene and was published by this cycle.
C3_Claim ==
    pc = "finally" =>
        /\ sceneRef # 0
        /\ ~scenes[sceneRef].disposed
        /\ PublishedNow
        /\ published = sceneRef

\* C4: when the script throws, the error does not reach the outer catch, the
\* message is on display, and the scene published is a live scene with the
\* default camera and the default light.
C4_ScriptFailureFallback ==
    ScriptThrew =>
        /\ pc \in {"restore", "publish", "finally"}
        /\ error = "Error in user code"
        /\ caught = NoError
        /\ Replacing => (~scene.isNull /\ HasDefaultCameraAndLight(scene))
        /\ pc = "finally" =>
             /\ PublishedNow
             /\ published = sceneRef
             /\ ~scenes[sceneRef].disposed
             /\ HasDefaultCameraAndLight(scenes[sceneRef])

\* a cycle whose script threw has published the fallback scene
C4_Witness ==
    /\ pc = "finally"
    /\ codeToExecute = ThrowingText
    /\ PublishedNow
    /\ error = "Error in user code"
    /\ scenes[sceneRef].cameras = <<DefaultCamera>>

\* C5 as stated: after an execution whose script failed, and until the user
\* changes the text, no execution is scheduled and none runs.
C5_Claim ==
    failedSince # 0 =>
        /\ timers = {}
        /\ pc # "effect"
        /\ execs = failedSince

\* C6 as stated: a cycle in which dispose() raised still executes the new text
\* and publishes a new scene.
C6_Claim ==
    (pc = "finally" /\ disposeRaised) =>
        /\ Took("execute")
        /\ PublishedNow
        /\ published = sceneRef

\* C7: the scene the publish step hands over is never null; a script that
\* returns nothing gets a new scene of the engine.
C7_SceneNeverNull ==
    /\ pc \in {"restore", "publish"} => ~scene.isNull
    /\ published # 0 => (published \in 1..Len(scenes) /\ ~scenes[published].isNull)
    /\ (ScriptReturnedNothing /\ pc = "restore") => scene = EmptyScene
    /\ ScriptReturnedNothing => pc \in {"restore", "publish", "finally"}
    /\ (ScriptReturnedNothing /\ pc = "finally") => (PublishedNow /\ published = sceneRef)

\* a script that returned nothing: a scene was published all the same
C7_Witness ==
    /\ pc = "finally"
    /\ codeToExecute = SceneLessText
    /\ PublishedNow
    /\ published = sceneRef
    /\ ~scenes[sceneRef].isNull

\* C8 as stated: the steps of a cycle come in order, each at most once, and
\* after the cycle nothing of the snapshot is kept.
C8_Claim ==
    /\ StepsInOrder
    /\ pc = "idle" =>
         /\ savedCameraState = NoSaved
         /\ selectedMeshName = NoName
         /\ sceneRef # 0 => scenes[sceneRef].selectedMeshName = NoName

\* C8 (amended): the steps of a cycle come in the order snapshot, dispose,
\* execute, camera reconstruction, publish, each at most once, the snapshot
\* before the dispose.  The camera snapshot is gone when the cycle ends; the
\* selected name is handed to the published scene, which keeps it (as
\* _selectedMeshName).
C8_CycleOrder ==
    /\ StepsInOrder
    /\ pc \in {"idle", "effect"} => (savedCameraState = NoSaved /\ selectedMeshName = NoName)
    /\ (pc = "finally" /\ PublishedNow) =>
         scenes[sceneRef].selectedMeshName = selectedMeshName

\* a cycle that took all five steps, with a selected name handed over
C8_Witness ==
    /\ pc = "finally"
    /\ steps = <<"snapshot", "dispose", "execute", "restore", "publish">>
    /\ selectedMeshName # NoName
    /\ scenes[sceneRef].selectedMeshName = selectedMeshName

\* the scene the text of the running callback produced, before the restore step
ProducedScene == ExecuteResult(codeToExecute).scene

\* C9 as stated: an orbit camera snapshot and a text that defines no camera
\* give a published scene whose orbit camera has the snapshotted alpha, beta
\* and radius.
C9_Claim ==
    (pc = "publish" /\ savedCameraState.type = "ArcRotateCamera"
       /\ Len(ProducedScene.cameras) = 0) =>
        /\ scene.activeCamera # 0
        /\ LET cam == scene.cameras[scene.activeCamera]
           IN  /\ cam.cls = "ArcRotateCamera"
               /\ cam.alpha = savedCameraState.alpha
               /\ cam.beta = savedCameraState.beta
               /\ cam.radius = savedCameraState.radius

\* C10 as stated: with a camera snapshot of any kind, a new scene without a
\* camera gets one camera of the snapshotted kind, and a new scene with a
\* camera of its own gets none.
C10_Claim ==
    (pc = "publish" /\ savedCameraState # NoSaved) =>
        IF Len(ProducedScene.cameras) = 0
        THEN /\ Len(scene.cameras) = 1
             /\ scene.cameras[1].cls = savedCameraState.type
        ELSE scene.cameras = ProducedScene.cameras

\* the positions of the meshes and of the lights of s that syncExistingObjects
\* does not pass over
UserMeshIndices(s) == {i \in 1..Len(s.meshes) : IsUserMesh(s.meshes[i])}

UserLightIndices(s) == {i \in 1..Len(s.lights) : IsUserLight(s.lights[i])}

\* no callback is running: the states a user or a timer can observe
Quiescent == pc = "idle"

\* the object of the stored scenes a handle refers to
Resolve(h) == ObjectAt(scenes[h.scene], h)

\* an object of the scaffold: the default camera, the default light, the ground
IsScaffold(h) ==
    \/ h.type = "camera" /\ Resolve(h).name = "camera1"
    \/ h.type = "light" /\ Resolve(h).name = "light"
    \/ h.type = "mesh" /\ Resolve(h).name = "ground"

\* the entries addAsset stored (their id is name_time)
AddedEntries == {k \in 1..Len(objects) : Len(objects[k].id) = 2}

\* C11 as stated: whenever no callback runs and a scene has been published,
\* every registry entry holds an object of the current scene and that scene
\* is live.
C11_Claim ==
    (Quiescent /\ sceneRef # 0) =>
        \A k \in 1..Len(objects) :
            /\ objects[k].babylonObject.scene = sceneRef
            /\ ~scenes[objects[k].babylonObject.scene].disposed

\* C12 as stated: whenever no callback runs, the mesh attached to the gizmo, if
\* any, is a mesh of the current scene and that scene is live.
C12_Claim ==
    (Quiescent /\ attachedMesh # NoHandle) =>
        /\ attachedMesh.scene = sceneRef
        /\ ~scenes[attachedMesh.scene].disposed

\* C13 as stated: after the resync of a publish step the registry has one
\* entry for every mesh and every light that is not passed over.
C13_Claim ==
    (pc = "finally" /\ PublishedNow) =>
        Len(objects) = Cardinality(UserMeshIndices(scenes[sceneRef]))
                       + Cardinality(UserLightIndices(scenes[sceneRef]))

\* C14: no registry entry holds the default camera, the default light or the
\* ground, whatever resyncs, adds and regenerations have happened.
C14_ScaffoldExcluded ==
    \A k \in 1..Len(objects) : ~IsScaffold(objects[k].babylonObject)

\* a scene with a ground, a default light and a default camera, whose registry
\* has a synced entry and entries added for a light and for a camera (both
\* returned as the newest of their type)
C14_Witness ==
    /\ Quiescent
    /\ smScene # 0
    /\ \E i \in 1..Len(scenes[smScene].meshes) : scenes[smScene].meshes[i].name = "ground"
    /\ scenes[smScene].lights[1] = DefaultLight
    /\ scenes[smScene].cameras[1] = DefaultCamera
    /\ \E k \in 1..Len(objects) : Len(objects[k].id) = 3
    /\ \E k \in AddedEntries : objects[k].type = "light"
    /\ \E k \in AddedEntries : objects[k].type = "camera"

\* C15 as stated: every add that yields an object makes the registry one entry
\* longer and leaves the entries it had as they were.
C15_Claim ==
    [][\A asset \in BABYLON_ASSETS :
         (addAsset(asset, FALSE) /\ asset.type # "material") =>
             /\ Len(objects') = Len(objects) + 1
             /\ \A k \in 1..Len(objects) : objects'[k] = objects[k]]_vars

\* C16: no entry has a null handle, and an add whose asset code throws or
\* yields no object changes neither the registry nor the text and sets no
\* timer.
C16_HandleNeverNull ==
    /\ [](\A k \in 1..Len(objects) : objects[k].babylonObject # NoHandle)
    /\ [][\A asset \in BABYLON_ASSETS, throws \in BOOLEAN :
            (addAsset(asset, throws) /\ (throws \/ asset.type = "material")) =>
                UNCHANGED <<objects, code, timers, autoSelectTimers>>]_vars

\* an add of the camera asset threw after constructing its camera: the camera
\* is in the scene and the registry has no entry for it
C16_Witness ==
    /\ Quiescent
    /\ gestures >= 1
    /\ smScene # 0
    /\ \E i \in 1..Len(scenes[smScene].cameras) :
         scenes[smScene].cameras[i].name = "arcCamera"
    /\ \A k \in 1..Len(objects) : objects[k].type # "camera"
    /\ Len(objects) > 0

C19_Claim ==
    [][\A p \in DragPositions :
         DragEnd(p) =>
             LET k == FindByHandle(objects, attachedMesh)
             IN  /\ attachedMesh' = attachedMesh
                 /\ IF k # 0
                    THEN /\ objects'[k].code =
                              generateObjectCode(ObjectAt(scenes'[smScene], attachedMesh),
                                                 objects[k].name, objects[k].type)
                         /\ code' = fullCode(objects')
                    ELSE UNCHANGED <<objects, code, timers>>]_vars

\* C20 as stated: the selection restore of a cycle leaves the mesh of the new
\* scene with the snapshotted name attached when there is one; when there is
\* none it leaves nothing attached that was attached before the cycle (nothing
\* at all, or a mesh of the new scene attached since).
C20_Claim ==
    [][\A name \in restoreTimers :
         restoreSelection(name) =>
             LET i == MeshByName(scenes[smScene], name)
             IN  IF i # 0
                 THEN attachedMesh' = MeshHandle(smScene, i)
                 ELSE attachedMesh' = NoHandle \/ attachedMesh'.scene = smScene]_vars

\* the number of entries of a kind in a registry
KindCount(objs, type) == Cardinality({k \in 1..Len(objs) : objs[k].type = type})

\* C21 as stated: when the replace cycle has run the text the aggregate builder
\* made from the present registry, the resync of the publish step leaves a
\* registry with as many meshes, lights and cameras as it had.
C21_Claim ==
    [][(Publish /\ codeToExecute = fullCode(objects)) =>
           \A type \in {"mesh", "light", "camera"} :
               KindCount(objects', type) = KindCount(objects, type)]_vars

\* C22 as stated: the text the aggregate builder makes from the registry runs
\* without a script error.
C22_Claim ==
    smScene # 0 => userFunction(fullCode(objects)).outcome # "throw"

\* an upper-case letter and its lower-case form
LetterCases ==
    {<<"A", "a">>, <<"B", "b">>, <<"C", "c">>, <<"L", "l">>, <<"M", "m">>,
     <<"P", "p">>, <<"R", "r">>, <<"S", "s">>}

IsUpperCase(c) == \E p \in LetterCases : p[1] = c

\* cs is ns lower-cased, without its blanks
IsLowerCasedAndStripped(cs, ns) ==
    LET kept == SelectSeq(ns, LAMBDA c : c # " ")
    IN  /\ Len(cs) = Len(kept)
        /\ \A i \in 1..Len(cs) :
             /\ cs[i] # " "
             /\ ~IsUpperCase(cs[i])
             /\ cs[i] = kept[i] \/ <<kept[i], cs[i]>> \in LetterCases

\* the entries whose object is in the manager's scene
LiveEntries == {k \in 1..Len(objects) : objects[k].babylonObject.scene = smScene}

\* C23: two entries of one kind and one display name whose objects are in the
\* same state have the same generated code, and the identifier of every
\* snippet is the display name in lower case without whitespace.
C23_Deterministic ==
    /\ \A j, k \in LiveEntries :
         ( /\ objects[j].type = objects[k].type
           /\ objects[j].name = objects[k].name
           /\ Resolve(objects[j].babylonObject) = Resolve(objects[k].babylonObject) )
         => objects[j].code = objects[k].code
    /\ \A k \in 1..Len(objects) :
         IsLowerCasedAndStripped(Chars(objects[k].code.ident), Chars(objects[k].name))

\* two entries for two objects in one state, made by two adds of Point Light
\* at different times, next to a synced entry
C23_Witness ==
    /\ Quiescent
    /\ \E j, k \in LiveEntries :
         /\ j < k
         /\ objects[j].name = "Point Light"
         /\ objects[k].name = "Point Light"
         /\ objects[j].babylonObject # objects[k].babylonObject
         /\ Resolve(objects[j].babylonObject) = Resolve(objects[k].babylonObject)
    /\ \E k \in 1..Len(objects) : Len(objects[k].id) = 3

\* C24 as stated: every printed number has exactly two digits after the
\* decimal point.
C24_Claim ==
    \A i \in 1..Len(printed) :
        /\ printed[i].text.form = "fixed"
        /\ Len(printed[i].text.fraction) = 2

\* the count of hundredths a text in fixed form stands for
HundredthsOf(t) ==
    LET a == 100 * t.integer + 10 * t.fraction[1] + t.fraction[2]
    IN  IF t.negative THEN -a ELSE a

\* C24, amended: a finite number of magnitude below 10^21 is printed with
\* exactly two digits after the decimal point, the nearest hundredth (1 as 1.00,
\* 0.333 as 0.33); NaN and numbers from 10^21 on are printed without them.
C24_FiniteTwoDecimals ==
    \A i \in 1..Len(printed) :
        LET x == printed[i].input
            t == printed[i].text
        IN  /\ x.kind = "finite" =>
                 /\ t.form = "fixed"
                 /\ Len(t.fraction) = 2
                 /\ \A d \in 1..2 : t.fraction[d] \in 0..9
                 /\ 10 * HundredthsOf(t) - x.v \in -5..5
            /\ x = Finite(1000) => t = Text("fixed", FALSE, 1, <<0, 0>>)
            /\ x = Finite(333) => t = Text("fixed", FALSE, 0, <<3, 3>>)
            /\ x.kind # "finite" => t.fraction = <<>>

\* a vector with a whole component and one of three decimals has been printed
C24_Witness ==
    /\ Len(printed) = 3
    /\ printed[1].input = Finite(1000)
    /\ printed[2].input = Finite(333)
    /\ printed[3].input = Finite(-2500)

\* C25: a step that emits a generated text emits the scaffold around the
\* snippets of the registry as it then is, one per entry, in registry order;
\* two registries with the same entries give the same text.
C25_AggregateInOrder ==
    [][(code' # code /\ code'.t = "gen") =>
           /\ Len(code'.codes) = Len(objects')
           /\ \A i \in 1..Len(objects') : code'.codes[i] = objects'[i].code]_vars

\* the text on display was emitted for a registry of a synced entry followed by
\* an added one
C25_Witness ==
    /\ Quiescent
    /\ code.t = "gen"
    /\ Len(code.codes) = 2
    /\ Len(objects) = 2
    /\ AddedEntries = {2}
    /\ code.codes[1] # code.codes[2]
    /\ code.codes[2] = objects[2].code

\* the entries of a registry without their handles
Content(objs) ==
    [k \in 1..Len(objs) |->
       [id |-> objs[k].id, name |-> objs[k].name, type |-> objs[k].type,
        code |-> objs[k].code]]

\* the registry is as the resync of the manager's scene left it, and the scene
\* about to be published has the meshes and lights of that scene
SameContentAgain ==
    /\ pc = "publish"
    /\ smScene # 0
    /\ objects = syncExistingObjects(smScene, scenes[smScene])
    /\ scene.meshes = scenes[smScene].meshes
    /\ scene.lights = scenes[smScene].lights

\* C26: the resync of a scene with the meshes and lights of the scene resynced
\* before it leaves the same entries in the same order, handles apart, and
\* emits the same text.
C26_StableResync ==
    [][(SameContentAgain /\ Publish) =>
           /\ Content(objects') = Content(objects)
           /\ code' = fullCode(objects)]_vars

\* a scene with a tracked mesh is about to be resynced after a scene of the
\* same meshes and lights, built by another text
C26_Witness ==
    /\ SameContentAgain
    /\ Len(objects) > 0
    /\ scene.cameras # scenes[smScene].cameras
    /\ codeToExecute \in ArcTexts

\* C27 as stated: the regeneration a drag-end runs changes the code of the entry that
\* holds the attached mesh and nothing else of the registry: the ids, names,
\* kinds and handles, the other entries, the order and the attached mesh stay,
\* and the text emitted is the aggregate of the registry after it.
C27_Claim ==
    [][\A p \in DragPositions :
         DragEnd(p) =>
             LET m == FindByHandle(objects, attachedMesh)
             IN  /\ Len(objects') = Len(objects)
                 /\ \A k \in 1..Len(objects) :
                      /\ objects'[k].id = objects[k].id
                      /\ objects'[k].name = objects[k].name
                      /\ objects'[k].type = objects[k].type
                      /\ objects'[k].babylonObject = objects[k].babylonObject
                      /\ k # m => objects'[k] = objects[k]
                 /\ attachedMesh' = attachedMesh
                 /\ m # 0 =>
                      /\ objects'[m].code =
                           generateObjectCode(Resolve(attachedMesh)', objects[m].name,
                                              objects[m].type)
                      /\ code' = fullCode(objects')]_vars

\* C28 as stated: once the playground is unmounted no timer of any kind is
\* pending and the scene it showed is disposed.
C28_Claim ==
    pc = "unmounted" =>
        /\ timers = {}
        /\ autoSelectTimers = {}
        /\ resizeTimers = {}
        /\ restoreTimers = {}
        /\ (engineRef /\ sceneRef # 0) => scenes[sceneRef].disposed

\* C29: while an execution timer is pending or the callback has not reached
\* its end the executing status is true; with no timer pending and no change of
\* text left to schedule it is false; and a pending timer is always followed by
\* a state in which the status is false, unless the playground is unmounted
\* first (its status is then gone with it).
C29_ExecutingStatus ==
    /\ []((timers # {} \/ InCallback) => isExecuting)
    /\ []((pc = "idle" /\ timers = {}) => ~isExecuting)
    /\ (timers # {}) ~> (~isExecuting \/ pc = "unmounted")

\* the text of an edit has been executed, then the text its publish step
\* emitted, and the status is false with nothing pending
C29_Witness ==
    /\ pc = "idle"
    /\ timers = {}
    /\ ~isExecuting
    /\ edits >= 1
    /\ execs >= 2
    /\ codeToExecute.t = "gen"

\* C30: a resize with mesh M attached detaches it and leaves a timer for M, a
\* timer for M when it fires attaches M, and the timers pending are for meshes;
\* a resize with nothing attached is no step at all.
C30_ResizeReattach ==
    /\ [](\A h \in resizeTimers : h.type = "mesh")
    /\ [][/\ handleResize =>
               /\ attachedMesh # NoHandle
               /\ attachedMesh' = NoHandle
               /\ resizeTimers' = resizeTimers \cup {attachedMesh}
          /\ \A h \in resizeTimers :
               ResizeReattach(h) => (attachedMesh' = h /\ h \notin resizeTimers')]_vars

\* a resize has detached a mesh of the live scene and its timer is pending
C30_Witness ==
    /\ pc = "idle"
    /\ attachedMesh = NoHandle
    /\ resizeTimers # {}
    /\ \A h \in resizeTimers : h.scene = smScene /\ ~scenes[smScene].disposed

C32_EngineInitError ==
    /\ [](~engineRef => /\ error # NoError
                        /\ execs = 0
                        /\ pc \in {"idle", "unmounted"}
                        /\ scenes = <<>>
                        /\ sceneRef = 0 /\ published = 0 /\ smScene = 0)
    /\ []((~engineRef /\ pc = "idle" /\ timers = {}) => ~isExecuting)
    /\ (~engineRef /\ timers # {}) ~> (~isExecuting \/ pc = "unmounted")
    /\ [][~engineRef => ~engineRef']_vars

\* without an engine the user has edited the text and the attempt that
\* followed has ended
C32_Witness ==
    /\ ~engineRef
    /\ edits > 0
    /\ code # BlankText
    /\ pc = "idle"
    /\ timers = {}
    /\ ~isExecuting

\* the records stored now and after the step
StoredBefore == getScenes(localStorage)

StoredAfter == getScenes(localStorage')

\* the places of the stored records with that id
PlacesOf(savedScenes, id) == {k \in 1..Len(savedScenes) : savedScenes[k].id = id}

\* C33: a save under an id that is stored puts the saved record in the place
\* of the stored one and leaves the other records and their number as they
\* are, and the stored record with that id is then the saved one; a load
\* returns the stored record with the id, none when there is none; a delete
\* leaves the records with other ids, in their order, and no other.
C33_Upsert ==
    [][/\ \A ps \in SavedInputs :
            (saveScene(ps, FALSE) /\ PlacesOf(StoredBefore, ps.id) # {}) =>
              /\ Len(StoredAfter) = Len(StoredBefore)
              /\ \A k \in 1..Len(StoredBefore) :
                    IF k \in PlacesOf(StoredBefore, ps.id)
                    THEN /\ StoredAfter[k] = returned'.value
                         /\ StoredAfter[k].id = ps.id
                         /\ StoredAfter[k].code = ps.code
                    ELSE StoredAfter[k] = StoredBefore[k]
              /\ PlacesOf(StoredAfter, ps.id) = PlacesOf(StoredBefore, ps.id)
       /\ \A id \in SceneIds :
            loadScene(id) =>
              IF PlacesOf(StoredBefore, id) = {}
              THEN returned'.value = NoRecord
              ELSE \E k \in PlacesOf(StoredBefore, id) : returned'.value = StoredBefore[k]
       /\ \A id \in SceneIds :
            deleteScene(id) =>
              /\ PlacesOf(StoredAfter, id) = {}
              /\ StoredAfter = SelectSeq(StoredBefore, LAMBDA s : s.id # id)]_vars

\* the first of two stored records was saved again after the second was stored
C33_Witness ==
    /\ returned.op = "save"
    /\ Len(getScenes(localStorage)) = 2
    /\ getScenes(localStorage)[1] = returned.value
    /\ getScenes(localStorage)[1].updated_at > getScenes(localStorage)[2].updated_at

\* C34 as stated: a save without an id stores one record more under an id no
\* stored record has and leaves the stored records as they are.
C34_Claim ==
    [][\A ps \in SavedInputs :
         (saveScene(ps, FALSE) /\ ps.id = NoId) =>
           /\ PlacesOf(StoredBefore, returned'.value.id) = {}
           /\ Len(StoredAfter) = Len(StoredBefore) + 1
           /\ \A k \in 1..Len(StoredBefore) : StoredAfter[k] = StoredBefore[k]]_vars

\* the words getMeshCreationCode looks for, in its order, and the calls
Keywords == <<"box", "sphere", "cylinder", "plane", "torus">>

Builders == <<"CreateBox", "CreateSphere", "CreateCylinder", "CreatePlane", "CreateTorus">>

\* the place of the first word of Keywords the name includes, 0 without one
FirstKeyword(name) ==
    IF \E i \in 1..Len(Keywords) : NameIncludes(name, Keywords[i])
    THEN CHOOSE i \in 1..Len(Keywords) :
           /\ NameIncludes(name, Keywords[i])
           /\ \A j \in 1..(i - 1) : ~NameIncludes(name, Keywords[j])
    ELSE 0

\* C35: the snippet of a mesh constructs it with the call of the first word
\* its name includes, a box without one; the snippet of a light with its class
\* when that is DirectionalLight, PointLight or SpotLight and a hemispheric
\* light otherwise; the snippet of a camera an orbit camera for an
\* ArcRotateCamera and a free camera otherwise; the snippet of another kind
\* constructs nothing.
C35_Dispatch ==
    /\ generated.type = "mesh" =>
          generated.code.ctor =
            IF FirstKeyword(generated.obj.name) = 0 THEN "CreateBox"
            ELSE Builders[FirstKeyword(generated.obj.name)]
    /\ generated.type = "light" =>
          generated.code.ctor =
            CASE generated.obj.cls = "DirectionalLight" -> "DirectionalLight"
              [] generated.obj.cls = "PointLight" -> "PointLight"
              [] generated.obj.cls = "SpotLight" -> "SpotLight"
              [] OTHER -> "HemisphericLight"
    /\ generated.type = "camera" =>
          generated.code.ctor =
            IF generated.obj.cls = "ArcRotateCamera" THEN "ArcRotateCamera" ELSE "FreeCamera"
    /\ generated.type \notin {"none", "mesh", "light", "camera"} =>
          DOMAIN generated.code = {"type", "name"}

\* a snippet was generated for a mesh whose name includes two of the words,
\* the later one first
C35_Witness ==
    /\ generated.type = "mesh"
    /\ generated.obj.name = "plane torus"
    /\ generated.code.ctor = "CreatePlane"
    /\ generated.code.position = <<123, 100, 0>>

\* C36 (liveness): after the one edit the loop comes to rest, with no timer
\* pending and no callback running.
C36_Quiesces == <>[](timers = {} /\ pc \in {"idle", "unmounted"})

\* C36: running a text updateCode emitted makes updateCode emit that text
\* again.
C36_Claim ==
    [][(pc = "publish" /\ codeToExecute.t = "gen") => code' = codeToExecute]_vars

\* C37: a drag-end regenerates the entry of the attached mesh, once, and no
\* other entry, so the text is emitted once (stated for drag-ends none of
\* whose handlers is for a mesh with the property listeners).
C37_Claim ==
    [][\A p \in DragPositions :
         ( /\ DragEnd(p)
           /\ FindByHandle(objects, attachedMesh) # 0
           /\ \A i \in 1..Len(dragHandlers) : ~PositionThrows(listeners, dragHandlers[i]) )
         => Regenerate(objects, scenes', dragHandlers, listeners).regenerated
              = <<FindByHandle(objects, attachedMesh)>>]_vars

\* C38: after the resync a drag-end on a tracked mesh runs its handlers to
\* the end, none throwing on the read of a position, and leaves the mesh
\* where the gizmo put it and its entry with the code of that position.
C38_Claim ==
    [][\A p \in DragPositions :
         (DragEnd(p) /\ FindByHandle(objects, attachedMesh) # 0)
         => /\ ~Regenerate(objects, scenes', dragHandlers, listeners).threw
            /\ scenes'[smScene].meshes[attachedMesh.index].position = p
            /\ objects'[FindByHandle(objects, attachedMesh)].code.position = Vec2(p)]_vars

\* C39: the scene manager has made at most one gizmo manager that it has not
\* disposed.
C39_Claim == Cardinality(gizmoManagers) <= 1

\* C40: at most one resize listener of handleSceneReady is registered on the
\* window.
C40_Claim == resizeListeners <= 1
====
